---- MODULE Spec2Model ----
(***************************************************************************)
(* Model of the RPC + session runtime of zziyad/server:                    *)
(*   - SessionManager (src/src/sessionManager.js 6-300): the tiered        *)
(*     session store, Redis fast tier with an in-process fallback Map;     *)
(*   - createProxy / Session / Client (same file, 1001-1187): the          *)
(*     debounced write-back of session state and the session lifecycle;    *)
(*   - Server.rpc (same file, 1265-1310 and 881-920) with Transport        *)
(*     (src/src/transport.js): packet dispatch and callback packets.       *)
(*                                                                         *)
(* Every handler is one action: the awaits inside one SessionManager       *)
(* method are not interleaved with other handlers.  The suspension points  *)
(* that are modelled as separate steps are the debounce timer, the await   *)
(* in Server.rpc before routing, and the settling of a handler promise.    *)
(*                                                                         *)
(* Specifications:                                                         *)
(*   StoreSpec     the SessionManager methods in any order, hours apart;   *)
(*   Spec          Clients that start, resume, finalize sessions, go away; *)
(*   DebounceSpec  one Session whose state handlers assign and remove,     *)
(*                 with the 100 ms timer and the write-back to Redis;      *)
(*   RpcSpec       frames of a WebSocket and an HTTP Client through        *)
(*                 Server.rpc, handlers settling in any order;             *)
(*   CookieSpec    HTTP requests with a session cookie while sessions are  *)
(*                 created, finalized and expire;                          *)
(*   StreamSpec    stream packets and binary chunks of one WebSocket       *)
(*                 connection through Server.stream and Server.binary;     *)
(*   CloseSpec     Server.close while calls arrive and Redis comes and     *)
(*                 goes;                                                   *)
(*   RetrySpec     one call of BootstrapErrorHandler.withRetry, every      *)
(*                 attempt settling and every delay elapsing;              *)
(*   DebounceFairSpec, WritersSpec, LogoutSpec                             *)
(*                 the write-back with fair timers, with two Clients on    *)
(*                 one token, and around finalizeSession;                  *)
(*   InvalidateSpec  sessions created, looked up and invalidated by token; *)
(*   InitSpec, ControlSpec, FinalizeSpec                                   *)
(*                 init packets of every shape, control packets of every   *)
(*                 status, and frames that arrive while Server.stream      *)
(*                 awaits close() / terminate();                           *)
(*   HungSpec      calls whose handler promise never settles;              *)
(*   ShutdownSpec  handleGracefulShutdown and its triggers.                *)
(***************************************************************************)
EXTENDS Integers, Sequences, FiniteSets, TLC

\* ------------------------------------------------------------------------
\* Values
\* ------------------------------------------------------------------------

Tokens == {"T1", "T2"}          \* session tokens
Users == {"u1", "u2"}           \* user identifiers (the `id` of session data)

Clients == {"c1", "c2"}         \* Client objects (one per connection / request)
Vals == {"a", "b"}              \* values a handler assigns to session state

\* The user who logs in with each token (the handler derives the token).
UserOf(k) == IF k = "T1" THEN "u1" ELSE "u2"

Absent == <<>>                  \* a property that an object does not carry
Some(x) == <<x>>                \* a property that holds the value x
NoKey == [none |-> TRUE]        \* a Map / Redis miss (undefined, null)

ttl == 21600                    \* SessionManager.ttl, seconds
TtlMs == ttl * 1000             \* this.ttl * 1000
TickMs == (TtlMs * 3) \div 2     \* granularity of the wall clock in StoreSpec

DebounceMs == 100               \* the debounce window of createProxy, ms
FineMs == DebounceMs \div 2     \* granularity of the wall clock in DebounceSpec
MaxFine == 4                    \* in DebounceSpec the clock stops after MaxFine ticks

MaxNow == 1                     \* the wall clock stops after MaxNow ticks
MaxCreated == 2                 \* cap of metrics.totalSessions
MaxFallbacks == 2               \* cap of metrics.memoryFallbacks
MaxRedisErrors == 1             \* cap of metrics.redisErrors

StreamIds == {1, 2}             \* ids of stream packets and binary chunks
Payloads == {"p", "q"}          \* payloads of binary chunks
MaxWindows == 2                 \* in WritersSpec the clock stops after MaxWindows windows
MaxRetries == 3                 \* largest maxRetries option given to withRetry
MaxArrived == 5                 \* stream packets and chunks a Client sends

\* new Date(ms).toISOString() and new Date(iso).getTime(): an ISO-8601 string
\* with millisecond precision, so that getTime(toISOString(ms)) = ms.
ToISOString(ms) == <<"iso", ms>>
GetTime(iso) == iso[2]

\* The session data a handler passes to startSession / createSession:
\* { id, ... } without createdAt / expiresAt; `val` is a state key that
\* handlers set later.
Data(u) == [id |-> Some(u), val |-> Absent, createdAt |-> Absent, expiresAt |-> Absent]

Keys == <<"createdAt", "expiresAt", "id", "val">>

\* JSON.stringify(obj): the own properties that are present, as text.
Stringify(obj) ==
  LET present == SelectSeq(Keys, LAMBDA k : obj[k] # Absent)
  IN  [i \in 1..Len(present) |-> <<present[i], obj[present[i]]>>]

\* JSON.parse(text): a fresh object with the properties of the text.
Parse(json) ==
  [k \in {"createdAt", "expiresAt", "id", "val"} |->
     IF \E i \in 1..Len(json) : json[i][1] = k
     THEN (json[CHOOSE i \in 1..Len(json) : json[i][1] = k])[2]
     ELSE Absent]

VARIABLES
  now,              \* Date.now(), ms
  redisReady,       \* sessionManager.redis.isReady
  redisStore,       \* the keys session:<token> of the Redis server
  memoryFallback,   \* SessionManager.memoryFallback
  metrics,          \* SessionManager.metrics
  session,          \* per Client: client.session, a Session object or null
  orphan,           \* per Client: a Session object the Client no longer
                    \* references whose debounce timer is still pending
  alias,            \* which holders reference one and the same state object
  variant,          \* which Server of the file runs: "session" (1189) or "stream" (823)
  calls,            \* per Client: the call packets that passed the packet check
  written,          \* per Client: what its transport has written, in order
  ended,            \* per Client: res.writableEnded of an HttpTransport
  unhandled,        \* an exception escaped Server.rpc or Transport.write
  streams,          \* per Client: client.streams, stream id -> reconstructor
  arrived,          \* history: per Client, the stream packets and binary
                    \* chunks it has sent, in arrival order
  closed,           \* history: per Client, the reconstructor that the last
                    \* end / terminate packet removed from client.streams
  server,           \* the Server: httpServer._closed, whether the HTTP
                    \* server listens, and the state of the Redis client
  retry,            \* one call of BootstrapErrorHandler.withRetry: its
                    \* options, its position and the attempts made so far
  finalizing,       \* per Client: the calls of Server.stream that wait in
                    \* `await stream.close()` / `await stream.terminate()`
  shutdown,         \* the process: the handlers handleGracefulShutdown
                    \* registered, its flag, the application state and how
                    \* far the shutdown sequence has come
  born,             \* history: per token, when createSession last ran with no
                    \* invalidation requested for the token since
  lastOp            \* history: the last operation, its arguments, its result

storeVars == <<now, redisReady, redisStore, memoryFallback, metrics>>
clientVars == <<session, orphan, alias>>
streamVars == <<streams, arrived, closed>>
otherVars == <<server, retry, finalizing, shutdown>>
rpcVars == <<variant, calls, written, ended, unhandled, streams, arrived, closed,
            server, retry, finalizing, shutdown>>
vars == <<now, redisReady, redisStore, memoryFallback, metrics,
          session, orphan, alias, variant, calls, written, ended, unhandled,
          streams, arrived, closed, server, retry, finalizing, shutdown,
          born, lastOp>>

\* The SessionManager object as one value.
SM == [redis |-> redisStore, mem |-> memoryFallback, metrics |-> metrics]

\* `parsed.expiresAt && new Date(parsed.expiresAt).getTime() < Date.now()`
IsExpired(rec, t) == rec.expiresAt # Absent /\ GetTime(rec.expiresAt) < t

\* redis.setEx(`session:${token}`, seconds, text)
SetEx(redis, token, seconds, text, t) ==
  [redis EXCEPT ![token] = [json |-> text, evictAt |-> t + seconds * 1000]]

Max0(n) == IF n > 0 THEN n ELSE 0      \* Math.max(0, n)

\* ------------------------------------------------------------------------
\* SessionManager: each method as a function of the manager's state
\* ------------------------------------------------------------------------
\* `ready` is redis.isReady when the method runs.  `fault` names the Redis
\* command of the method that rejects ("none": every command succeeds); a
\* command can only reject when one is issued, that is when `ready` holds.

\* SessionManager.invalidateSession(token); it returns true on both paths.
\* fault "del": redis.del rejects, the catch block runs.
invalidateSession(sm, ready, token, fault) ==
  [sm EXCEPT
     !.redis = IF ready /\ fault = "none" THEN [@ EXCEPT ![token] = NoKey] ELSE @,
     !.mem = [@ EXCEPT ![token] = NoKey],
     !.metrics = [@ EXCEPT !.activeSessions = Max0(@ - 1)]]

\* SessionManager.createSession(token, data); it returns true on both paths.
\* fault "setEx": redis.setEx rejects; fault "get": the verifying redis.get
\* rejects after the key was written.  Both run the catch block.
createSession(sm, ready, token, data, fault, t) ==
  LET sessionData == [data EXCEPT !.createdAt = ToISOString(t),
                                  !.expiresAt = ToISOString(t + ttl * 1000)]
      afterSetEx == SetEx(sm.redis, token, ttl, Stringify(sessionData), t)
  IN  IF ready /\ fault # "none"
      THEN [sm EXCEPT
              !.redis = IF fault = "get" THEN afterSetEx ELSE @,
              !.mem = [@ EXCEPT ![token] = data],
              !.metrics = [@ EXCEPT !.memoryFallbacks = @ + 1]]
      ELSE [sm EXCEPT
              !.redis = IF ready THEN afterSetEx ELSE @,
              !.mem = [@ EXCEPT ![token] = sessionData],
              !.metrics = [@ EXCEPT
                 !.memoryFallbacks = IF ready THEN @ ELSE @ + 1,
                 !.totalSessions = @ + 1,
                 !.activeSessions = @ + 1]]

\* TRUE when createSession stored the caller's own `data` object in the
\* fallback map (the catch block), FALSE when it stored the copy sessionData.
createSessionKeepsData(ready, fault) == ready /\ fault # "none"

\* The fallback branch of getSession (lines 106-123, and 126-138 in the
\* catch block): [sm, result, path].
getFromMemory(sm, token, t) ==
  LET memorySession == sm.mem[token]
  IN  IF memorySession = NoKey
      THEN [sm |-> sm, result |-> NoKey, path |-> "miss"]
      ELSE IF IsExpired(memorySession, t)
      THEN [sm |-> [sm EXCEPT !.mem = [@ EXCEPT ![token] = NoKey]],
            result |-> NoKey, path |-> "memory expired"]
      ELSE [sm |-> [sm EXCEPT !.metrics = [@ EXCEPT !.memoryFallbacks = @ + 1]],
            result |-> memorySession, path |-> "memory"]

\* getSession with the expiry check of the Redis branch (line 95) left out.
getSessionTrustingTtl(sm, ready, token, fault, t) ==
  IF ready /\ fault = "get"
  THEN getFromMemory(sm, token, t)
  ELSE IF ready /\ sm.redis[token] # NoKey
  THEN [sm |-> sm, result |-> Parse(sm.redis[token].json), path |-> "redis"]
  ELSE getFromMemory(sm, token, t)

\* A getSession that reports not found when the Redis lookup fails.
getSessionRedisOnly(sm, ready, token, fault, t) ==
  IF ready /\ fault = "get"
  THEN [sm |-> sm, result |-> NoKey, path |-> "miss"]
  ELSE IF ready /\ sm.redis[token] # NoKey
  THEN LET parsed == Parse(sm.redis[token].json)
       IN  IF IsExpired(parsed, t)
           THEN [sm |-> invalidateSession(sm, ready, token, fault),
                 result |-> NoKey, path |-> "redis expired"]
           ELSE [sm |-> sm, result |-> parsed, path |-> "redis"]
  ELSE getFromMemory(sm, token, t)

\* SessionManager.getSession(token): [sm, result, path]; result is the
\* session record or NoKey (null); path names the branch that returned.  On
\* path "memory" the object returned is the very object the fallback map
\* holds, on path "redis" it is a fresh object made by JSON.parse.
\* fault "get": redis.get rejects; fault "del": the redis.del of the nested
\* invalidateSession rejects.
getSession(sm, ready, token, fault, t) ==
  IF ready /\ fault = "get"
  THEN getFromMemory(sm, token, t)
  ELSE IF ready /\ sm.redis[token] # NoKey
  THEN LET parsed == Parse(sm.redis[token].json)
       IN  IF IsExpired(parsed, t)
           THEN [sm |-> invalidateSession(sm, ready, token, fault),
                 result |-> NoKey, path |-> "redis expired"]
           ELSE [sm |-> sm, result |-> parsed, path |-> "redis"]
  ELSE getFromMemory(sm, token, t)

\* redis.keys('session:*')
RedisKeys(redis) == {k \in Tokens : redis[k] # NoKey}

\* The tokens whose session, in either tier, carries the user identifier u.
SessionsOf(sm, u) ==
  {k \in Tokens : \/ sm.redis[k] # NoKey /\ Parse(sm.redis[k].json).id = Some(u)
                  \/ sm.mem[k] # NoKey /\ sm.mem[k].id = Some(u)}

\* SessionManager.invalidateUserSessions(userId): [sm, result].
\* fault "keys": redis.keys rejects; fault "scan": a redis.get or redis.del of
\* the loop rejects after the keys in `done` have been handled.  Both run the
\* catch block, which returns 0 and skips the fallback map and the counter.
invalidateUserSessions(sm, ready, userId, fault, done) ==
  LET keys == RedisKeys(sm.redis)
      MatchR(k) == Parse(sm.redis[k].json).id = Some(userId)
      hitR == {k \in keys : MatchR(k)}
      hitM == {k \in Tokens : sm.mem[k] # NoKey /\ sm.mem[k].id = Some(userId)}
      invalidatedCount == (IF ready THEN Cardinality(hitR) ELSE 0) + Cardinality(hitM)
  IN  IF ready /\ fault = "keys"
      THEN [sm |-> sm, result |-> 0]
      ELSE IF ready /\ fault = "scan"
      THEN [sm |-> [sm EXCEPT !.redis =
                      [k \in Tokens |-> IF k \in hitR \cap done THEN NoKey ELSE @[k]]],
            result |-> 0]
      ELSE [sm |-> [sm EXCEPT
                      !.redis = [k \in Tokens |->
                                   IF ready /\ k \in hitR THEN NoKey ELSE @[k]],
                      !.mem = [k \in Tokens |-> IF k \in hitM THEN NoKey ELSE @[k]],
                      !.metrics = [@ EXCEPT !.activeSessions =
                                     Max0(@ - invalidatedCount)]],
            result |-> invalidatedCount]

\* SessionManager.invalidateAllSessions(): [sm, result].
\* fault "keys": redis.keys rejects; fault "del": redis.del(keys) rejects.
invalidateAllSessions(sm, ready, fault) ==
  LET keys == RedisKeys(sm.redis)
      redisCount == IF ready THEN Cardinality(keys) ELSE 0
      memoryCount == Cardinality({k \in Tokens : sm.mem[k] # NoKey})
  IN  IF ready /\ (fault = "keys" \/ (fault = "del" /\ keys # {}))
      THEN [sm |-> sm, result |-> 0]
      ELSE [sm |-> [sm EXCEPT
                      !.redis = IF ready THEN [k \in Tokens |-> NoKey] ELSE @,
                      !.mem = [k \in Tokens |-> NoKey],
                      !.metrics = [@ EXCEPT !.activeSessions = 0]],
            result |-> redisCount + memoryCount]

\* A cleanupExpired that sweeps every entry the clock has passed the
\* creation of, expired or not.
cleanupExpiredEager(sm, t) ==
  LET expired == {k \in Tokens : sm.mem[k] # NoKey /\ sm.mem[k].createdAt # Absent
                                  /\ GetTime(sm.mem[k].createdAt) <= t}
      cleanedCount == Cardinality(expired)
  IN  [sm |-> [sm EXCEPT
                 !.mem = [k \in Tokens |-> IF k \in expired THEN NoKey ELSE @[k]],
                 !.metrics = [@ EXCEPT !.activeSessions =
                                IF cleanedCount > 0 THEN Max0(@ - cleanedCount) ELSE @]],
       result |-> cleanedCount]

\* SessionManager.cleanupExpired(): [sm, result].  It issues no Redis command.
cleanupExpired(sm, t) ==
  LET expired == {k \in Tokens : sm.mem[k] # NoKey /\ IsExpired(sm.mem[k], t)}
      cleanedCount == Cardinality(expired)
  IN  [sm |-> [sm EXCEPT
                 !.mem = [k \in Tokens |-> IF k \in expired THEN NoKey ELSE @[k]],
                 !.metrics = [@ EXCEPT !.activeSessions =
                                IF cleanedCount > 0 THEN Max0(@ - cleanedCount) ELSE @]],
       result |-> cleanedCount]

\* ------------------------------------------------------------------------
\* The store on its own: the SessionManager methods called in any order
\* ------------------------------------------------------------------------

InitWith(v) ==
  /\ now = 0
  /\ redisReady = FALSE         \* redis.connect() has not completed yet
  /\ redisStore = [k \in Tokens |-> NoKey]
  /\ memoryFallback = [k \in Tokens |-> NoKey]
  /\ metrics = [totalSessions |-> 0, activeSessions |-> 0,
                redisErrors |-> 0, memoryFallbacks |-> 0]
  /\ session = [c \in Clients |-> NoKey]
  /\ orphan = [c \in Clients |-> NoKey]
  /\ alias = {}
  /\ variant = v
  /\ calls = [c \in Clients |-> <<>>]
  /\ written = [c \in Clients |-> <<>>]
  /\ ended = [c \in Clients |-> FALSE]
  /\ unhandled = FALSE
  /\ streams = [c \in Clients |-> [i \in StreamIds |-> NoKey]]
  /\ arrived = [c \in Clients |-> <<>>]
  /\ closed = [c \in Clients |-> NoKey]
  /\ server = [_closed |-> FALSE, listening |-> TRUE, redis |-> "open"]
  /\ retry = [state |-> "idle", maxRetries |-> 0, baseDelay |-> 0, attempt |-> 0,
              delay |-> 0, log |-> <<>>, out |-> NoKey]
  /\ finalizing = [c \in Clients |-> {}]
  /\ shutdown = [listeners |-> TRUE, isShuttingDown |-> FALSE, state |-> FALSE,
                 stage |-> "running", started |-> 0, exit |-> "none"]
  /\ born = [k \in Tokens |-> NoKey]
  /\ lastOp = [op |-> "init"]

InitStore == InitWith("session")

SetSM(sm) ==
  /\ redisStore' = sm.redis
  /\ memoryFallback' = sm.mem
  /\ metrics' = sm.metrics

\* The faults a method can meet: none when no Redis command is issued.
FaultsOf(cmds) == IF redisReady THEN {"none"} \cup cmds ELSE {"none"}

\* The counters of the model are capped.
CanCount ==
  /\ metrics.totalSessions < MaxCreated
  /\ metrics.memoryFallbacks < MaxFallbacks

\* The wall clock advances.
Tick ==
  /\ now < MaxNow * TickMs
  /\ now' = now + TickMs
  /\ lastOp' = [op |-> "tick"]
  /\ UNCHANGED <<redisReady, redisStore, memoryFallback, metrics, born>>
  /\ UNCHANGED clientVars
  /\ UNCHANGED rpcVars

\* The Redis server drops a key whose TTL has elapsed.  The server runs on
\* its own clock: the key may outlive the deadline as this process sees it.
RedisExpire(k) ==
  /\ redisStore[k] # NoKey
  /\ redisStore[k].evictAt <= now
  /\ redisStore' = [redisStore EXCEPT ![k] = NoKey]
  /\ lastOp' = [op |-> "redisExpire", token |-> k]
  /\ UNCHANGED <<now, redisReady, memoryFallback, metrics, born>>
  /\ UNCHANGED clientVars
  /\ UNCHANGED rpcVars

\* redis 'ready' event (setupRedis, line 31).
RedisReadyEvent ==
  /\ ~redisReady
  /\ server.redis = "open"
  /\ redisReady' = TRUE
  /\ lastOp' = [op |-> "redisReady"]
  /\ UNCHANGED <<now, redisStore, memoryFallback, metrics, born>>
  /\ UNCHANGED clientVars
  /\ UNCHANGED rpcVars

\* redis 'error' event (setupRedis, line 22): the connection is lost.
RedisErrorEvent ==
  /\ metrics.redisErrors < MaxRedisErrors
  /\ redisReady' = FALSE
  /\ metrics' = [metrics EXCEPT !.redisErrors = @ + 1]
  /\ lastOp' = [op |-> "redisError"]
  /\ UNCHANGED <<now, redisStore, memoryFallback, born>>
  /\ UNCHANGED clientVars
  /\ UNCHANGED rpcVars

CreateSession(token, u, fault) ==
  /\ CanCount
  /\ SetSM(createSession(SM, redisReady, token, Data(u), fault, now))
  /\ born' = [born EXCEPT ![token] = [at |-> now, user |-> u]]
  /\ lastOp' = [op |-> "createSession", token |-> token, user |-> u,
                fault |-> fault, result |-> TRUE]
  /\ UNCHANGED <<now, redisReady>>
  /\ UNCHANGED clientVars
  /\ UNCHANGED rpcVars

GetSession(token, fault) ==
  /\ CanCount
  /\ LET r == getSession(SM, redisReady, token, fault, now)
     IN  /\ SetSM(r.sm)
         /\ lastOp' = [op |-> "getSession", token |-> token, fault |-> fault,
                       result |-> r.result, path |-> r.path]
  /\ UNCHANGED <<now, redisReady, born>>
  /\ UNCHANGED clientVars
  /\ UNCHANGED rpcVars

InvalidateSession(token, fault) ==
  /\ SetSM(invalidateSession(SM, redisReady, token, fault))
  /\ born' = [born EXCEPT ![token] = NoKey]
  /\ lastOp' = [op |-> "invalidateSession", token |-> token, fault |-> fault,
                result |-> TRUE]
  /\ UNCHANGED <<now, redisReady>>
  /\ UNCHANGED clientVars
  /\ UNCHANGED rpcVars

InvalidateUserSessions(u, fault, done) ==
  /\ LET r == invalidateUserSessions(SM, redisReady, u, fault, done)
     IN  /\ SetSM(r.sm)
         /\ lastOp' = [op |-> "invalidateUserSessions", user |-> u,
                       fault |-> fault, result |-> r.result]
  /\ born' = [k \in Tokens |->
                IF k \in SessionsOf(SM, u) THEN NoKey ELSE born[k]]
  /\ UNCHANGED <<now, redisReady>>
  /\ UNCHANGED clientVars
  /\ UNCHANGED rpcVars

InvalidateAllSessions(fault) ==
  /\ LET r == invalidateAllSessions(SM, redisReady, fault)
     IN  /\ SetSM(r.sm)
         /\ lastOp' = [op |-> "invalidateAllSessions", fault |-> fault,
                       result |-> r.result]
  /\ born' = [k \in Tokens |-> NoKey]
  /\ UNCHANGED <<now, redisReady>>
  /\ UNCHANGED clientVars
  /\ UNCHANGED rpcVars

\* The 5-minute timer of Server.setupSessionCleanup.
CleanupExpired ==
  /\ LET r == cleanupExpired(SM, now)
     IN  /\ SetSM(r.sm)
         /\ lastOp' = [op |-> "cleanupExpired", result |-> r.result]
  /\ UNCHANGED <<now, redisReady, born>>
  /\ UNCHANGED clientVars
  /\ UNCHANGED rpcVars

NextStore ==
  \/ Tick
  \/ \E k \in Tokens : RedisExpire(k)
  \/ RedisReadyEvent
  \/ RedisErrorEvent
  \/ \E k \in Tokens, u \in Users, f \in FaultsOf({"setEx", "get"}) :
       CreateSession(k, u, f)
  \/ \E k \in Tokens, f \in FaultsOf({"get", "del"}) : GetSession(k, f)
  \/ \E k \in Tokens, f \in FaultsOf({"del"}) : InvalidateSession(k, f)
  \/ \E u \in Users, f \in FaultsOf({"keys", "scan"}) :
       \E done \in (IF f = "scan" THEN SUBSET RedisKeys(redisStore) \ {RedisKeys(redisStore)}
                    ELSE {{}}) :
         InvalidateUserSessions(u, f, done)
  \/ \E f \in FaultsOf({"keys", "del"}) : InvalidateAllSessions(f)
  \/ CleanupExpired

StoreSpec == InitStore /\ [][NextStore]_vars

\* Sessions that are created, looked up and invalidated one token at a
\* time, while Redis comes and goes and the clock moves.
NextInvalidate ==
  \/ Tick
  \/ \E k \in Tokens : RedisExpire(k)
  \/ RedisReadyEvent
  \/ RedisErrorEvent
  \/ \E k \in Tokens, u \in Users, f \in FaultsOf({"setEx", "get"}) :
       CreateSession(k, u, f)
  \/ \E k \in Tokens, f \in FaultsOf({"get", "del"}) : GetSession(k, f)
  \/ \E k \in Tokens, f \in FaultsOf({"del"}) : InvalidateSession(k, f)
  \/ CleanupExpired

InvalidateSpec == InitStore /\ [][NextInvalidate]_vars

\* ------------------------------------------------------------------------
\* Claims about the session store (checked under StoreSpec)
\* ------------------------------------------------------------------------

\* The lookup of token k reaches the Redis branch and finds a record there.
FoundInRedis(k, fault) == redisReady /\ fault # "get" /\ redisStore[k] # NoKey
\* The lookup of token k falls through to the fallback map and finds a record.
FoundInMemory(k, fault) == ~FoundInRedis(k, fault) /\ memoryFallback[k] # NoKey

\* C4: a session created by createSession with TTL T is returned by
\* getSession at every time before creation + T and is reported as not found
\* at every time after creation + T, whichever tier serves the lookup and
\* whether or not the Redis write succeeded at creation.
C4_RetrievableUntilTtl ==
  [][\A k \in Tokens :
       (lastOp'.op = "getSession" /\ lastOp'.token = k /\ born[k] # NoKey) =>
          /\ (now < born[k].at + TtlMs) => (lastOp'.result # NoKey)
          /\ (now > born[k].at + TtlMs) => (lastOp'.result = NoKey)]_vars

C8_FallbackKeepsMetadata ==
  [][\A k \in Tokens :
       (lastOp'.op = "createSession" /\ lastOp'.token = k) =>
          /\ lastOp'.result = TRUE
          /\ (~redisReady \/ lastOp'.fault # "none") =>
                /\ memoryFallback'[k] # NoKey
                /\ memoryFallback'[k].createdAt = ToISOString(now)
                /\ memoryFallback'[k].expiresAt = ToISOString(now + TtlMs)
                /\ metrics'.memoryFallbacks = metrics.memoryFallbacks + 1]_vars

\* C9: invalidateUserSessions(userId) removes from Redis and from the
\* fallback map every session whose id equals userId and no other session.
C9_InvalidateUserExact ==
  [][\A u \in Users :
       (lastOp'.op = "invalidateUserSessions" /\ lastOp'.user = u) =>
          \A k \in Tokens :
             /\ redisStore'[k] =
                  IF redisStore[k] # NoKey /\ Parse(redisStore[k].json).id = Some(u)
                  THEN NoKey ELSE redisStore[k]
             /\ memoryFallback'[k] =
                  IF memoryFallback[k] # NoKey /\ memoryFallback[k].id = Some(u)
                  THEN NoKey ELSE memoryFallback[k]]_vars

\* C10: invalidateSession(token) removes the token from Redis and from the
\* fallback map and decrements activeSessions by one, floored at zero; the
\* counter is never negative.
C10_InvalidateRemoves ==
  [][/\ metrics'.activeSessions >= 0
     /\ \A k \in Tokens :
          (lastOp'.op = "invalidateSession" /\ lastOp'.token = k) =>
             /\ redisStore'[k] = NoKey
             /\ memoryFallback'[k] = NoKey
             /\ metrics'.activeSessions = Max0(metrics.activeSessions - 1)]_vars

\* ------------------------------------------------------------------------
\* createProxy and Session: the debounced write-back of session state
\* ------------------------------------------------------------------------

\* new Session(token, data): the token and a proxy around the object `data`.
\* saveTimeout holds the deadlines of the timers of the proxy that are armed
\* and have neither fired nor been cleared.  History: dirty, a property of
\* the state was assigned or removed through the proxy since the last
\* write-back; lastMutation, when that last happened; failed, the last
\* write-back of this Session did not reach Redis.
Session(token, data) ==
  [token |-> token, state |-> data, saveTimeout |-> {},
   dirty |-> FALSE, lastMutation |-> 0 - 1, failed |-> FALSE]

\* A set trap that gives up once a write-back of the Session has failed.
setUnlessFailed(s, value, t) ==
  IF s.failed THEN s
  ELSE [s EXCEPT !.state = [@ EXCEPT !.val = Some(value)],
                 !.saveTimeout = {t + DebounceMs},
                 !.dirty = TRUE,
                 !.lastMutation = t]

\* The set trap of createProxy for `state.val = value` at time t:
\* Reflect.set, clearTimeout of the pending timer, setTimeout(..., 100).
set(s, value, t) ==
  [s EXCEPT !.state = [@ EXCEPT !.val = Some(value)],
            !.saveTimeout = {t + DebounceMs},
            !.dirty = TRUE,
            !.lastMutation = t]

\* `delete state.val` at time t: createProxy defines no deleteProperty trap,
\* the property is removed from the target and no timer is touched.
deleteProperty(s, t) ==
  [s EXCEPT !.state = [@ EXCEPT !.val = Absent],
            !.dirty = TRUE,
            !.lastMutation = t]

\* The timer with deadline d fires: cleanData = { ...data } is handed to save.
timerFired(s, d) == [s EXCEPT !.saveTimeout = @ \ {d}, !.dirty = FALSE]

\* A save callback that writes the properties of the snapshot into the
\* record Redis holds and keeps the other properties of that record.
saveMerging(redis, ready, token, sessionData, fault, t) ==
  IF ready /\ fault = "none"
  THEN SetEx(redis, token, ttl,
             Stringify([k \in DOMAIN sessionData |->
                          IF sessionData[k] # Absent \/ redis[token] = NoKey
                          THEN sessionData[k]
                          ELSE Parse(redis[token].json)[k]]), t)
  ELSE redis

\* The save callback of Session: redis.setEx(`session:${token}`, ttl,
\* JSON.stringify(sessionData)), with no metadata added and no look at the
\* fallback map.  The command rejects while Redis is unavailable or on a
\* fault; the rejection is caught and logged.
save(redis, ready, token, sessionData, fault, t) ==
  IF ready /\ fault = "none"
  THEN SetEx(redis, token, ttl, Stringify(sessionData), t)
  ELSE redis

\* ------------------------------------------------------------------------
\* Object identity: which holders reference the same state object
\* ------------------------------------------------------------------------
\* A holder is a slot of the fallback map, the Session of a Client, or a
\* Session a Client has dropped.  alias is the set of the groups of two or
\* more holders that share one object; the content of the object is kept
\* equal in each holder of a group.

MemH(k) == <<"memory", k>>
SesH(c) == <<"session", c>>
OrpH(c) == <<"orphan", c>>

ClassOf(al, h) == IF \E g \in al : h \in g THEN CHOOSE g \in al : h \in g ELSE {h}
Leave(al, hs) == {t \in {g \ hs : g \in al} : Cardinality(t) >= 2}
Join(al, h, g) ==
  LET al1 == Leave(al, {h})
      cg == ClassOf(al1, g)
  IN  (al1 \ {cg}) \cup {cg \cup {h}}
Rename(al, h, h2) == {IF h \in g THEN (g \ {h}) \cup {h2} ELSE g : g \in al}

\* The slots of the fallback map that a store operation emptied.
Dropped(before, after) ==
  {MemH(k) : k \in {t \in Tokens : before[t] # NoKey /\ after[t] = NoKey}}

\* client.session is overwritten or set to null: the Session object it
\* referenced lives on only while its timer is pending.
CanUnbind(c) ==
  IF session[c] = NoKey THEN TRUE
  ELSE IF session[c].saveTimeout = {} THEN TRUE
  ELSE orphan[c] = NoKey
Unbind(c) ==
  IF session[c] = NoKey
  THEN [orphan |-> orphan, alias |-> alias]
  ELSE IF session[c].saveTimeout = {}
  THEN [orphan |-> orphan, alias |-> Leave(alias, {SesH(c)})]
  ELSE [orphan |-> [orphan EXCEPT ![c] = session[c]],
        alias |-> Rename(alias, SesH(c), OrpH(c))]

\* ------------------------------------------------------------------------
\* Client: the session lifecycle
\* ------------------------------------------------------------------------

\* What a variant of destroy() that finalizes the bound session would do.
destroyFinalizing(sm, ready, s) ==
  IF s = NoKey THEN sm ELSE invalidateSession(sm, ready, s.token, "none")

\* Client.destroy(): emits 'close', which no listener of the repository
\* observes, and logs; the manager is not called.
destroy(sm, ready, s) == sm

\* new Client(transport) for a new request or connection, in the place of a
\* Client that nothing references any more.
NewClient(c) ==
  /\ session[c] # NoKey
  /\ CanUnbind(c)
  /\ session' = [session EXCEPT ![c] = NoKey]
  /\ orphan' = Unbind(c).orphan
  /\ alias' = Unbind(c).alias
  /\ lastOp' = [op |-> "newClient", client |-> c]
  /\ UNCHANGED <<storeVars, born>>
  /\ UNCHANGED rpcVars

\* Client.startSession(token, data) with Client.initializeSession inlined:
\* finalizeSession when a session of another token is bound, createSession,
\* client.session = new Session(token, data).  fault "del" is met by the
\* finalization, "setEx" and "get" by createSession.
StartSession(c, token, u, fault) ==
  /\ CanCount
  /\ CanUnbind(c)
  /\ LET old == session[c]
         finalize == old # NoKey /\ old.token # token
         sm1 == IF finalize
                THEN invalidateSession(SM, redisReady, old.token,
                                       IF fault = "del" THEN "del" ELSE "none")
                ELSE SM
         cf == IF fault = "del" THEN "none" ELSE fault
         sm2 == createSession(sm1, redisReady, token, Data(u), cf, now)
         al1 == Leave(Unbind(c).alias,
                      {MemH(token)} \cup Dropped(memoryFallback, sm1.mem))
     IN  /\ SetSM(sm2)
         /\ session' = [session EXCEPT ![c] = Session(token, Data(u))]
         /\ orphan' = Unbind(c).orphan
         /\ alias' = IF createSessionKeepsData(redisReady, cf)
                     THEN al1 \cup {{MemH(token), SesH(c)}}
                     ELSE al1
         /\ born' = [k \in Tokens |->
                       IF k = token THEN [at |-> now, user |-> u]
                       ELSE IF finalize /\ k = old.token THEN NoKey
                       ELSE born[k]]
         /\ lastOp' = [op |-> "startSession", client |-> c, token |-> token,
                       user |-> u, fault |-> fault, result |-> TRUE]
  /\ UNCHANGED <<now, redisReady>>
  /\ UNCHANGED rpcVars

\* Client.restoreSession(token): the object getSession returns becomes the
\* target of the new Session; on the fallback path that object is the one
\* the fallback map holds.
restoreSession(c, token, fault) ==
  /\ CanCount
  /\ CanUnbind(c)
  /\ LET r == getSession(SM, redisReady, token, fault, now)
         found == r.result # NoKey
         al0 == IF found THEN Unbind(c).alias ELSE alias
         al1 == Leave(al0, Dropped(memoryFallback, r.sm.mem))
     IN  /\ SetSM(r.sm)
         /\ session' = IF found
                       THEN [session EXCEPT ![c] = Session(token, r.result)]
                       ELSE session
         /\ orphan' = IF found THEN Unbind(c).orphan ELSE orphan
         /\ alias' = IF found /\ r.path = "memory"
                     THEN Join(al1, SesH(c), MemH(token))
                     ELSE al1
         /\ lastOp' = [op |-> "restoreSession", client |-> c, token |-> token,
                       fault |-> fault, result |-> found, path |-> r.path]
  /\ UNCHANGED <<now, redisReady, born>>

RestoreSession(c, token, fault) ==
  /\ restoreSession(c, token, fault)
  /\ UNCHANGED rpcVars

\* Client.finalizeSession()
FinalizeSession(c, fault) ==
  /\ CanUnbind(c)
  /\ UNCHANGED rpcVars
  /\ IF session[c] = NoKey
     THEN /\ lastOp' = [op |-> "finalizeSession", client |-> c, result |-> FALSE]
          /\ UNCHANGED <<storeVars, clientVars, born>>
     ELSE LET token == session[c].token
              sm1 == invalidateSession(SM, redisReady, token, fault)
          IN  /\ SetSM(sm1)
              /\ session' = [session EXCEPT ![c] = NoKey]
              /\ orphan' = Unbind(c).orphan
              /\ alias' = Leave(Unbind(c).alias, Dropped(memoryFallback, sm1.mem))
              /\ born' = [born EXCEPT ![token] = NoKey]
              /\ lastOp' = [op |-> "finalizeSession", client |-> c,
                            token |-> token, fault |-> fault, result |-> TRUE]
              /\ UNCHANGED <<now, redisReady>>

\* Client.destroy()
Destroy(c) ==
  /\ LET sm1 == destroy(SM, redisReady, session[c])
     IN  /\ SetSM(sm1)
         /\ alias' = Leave(alias, Dropped(memoryFallback, sm1.mem))
  /\ lastOp' = [op |-> "destroy", client |-> c]
  /\ UNCHANGED <<now, redisReady, session, orphan, born>>
  /\ UNCHANGED rpcVars

\* The write of newState into the object that the Session of client c wraps
\* is seen by every holder of that object.
Shared(c, h) == h \in ClassOf(alias, SesH(c))
WriteThrough(c, s) ==
  /\ session' = [d \in Clients |->
                   IF d = c THEN s
                   ELSE IF Shared(c, SesH(d)) THEN [session[d] EXCEPT !.state = s.state]
                   ELSE session[d]]
  /\ orphan' = [d \in Clients |->
                  IF Shared(c, OrpH(d)) THEN [orphan[d] EXCEPT !.state = s.state]
                  ELSE orphan[d]]
  /\ memoryFallback' = [k \in Tokens |->
                          IF Shared(c, MemH(k)) THEN s.state ELSE memoryFallback[k]]

\* A handler runs `context.session.state.val = v`.
Mutate(c, v) ==
  /\ session[c] # NoKey
  /\ WriteThrough(c, set(session[c], v, now))
  /\ lastOp' = [op |-> "set", client |-> c, value |-> v]
  /\ UNCHANGED <<now, redisReady, redisStore, metrics, alias, born>>
  /\ UNCHANGED rpcVars

\* A handler runs `delete context.session.state.val`.
DeleteKey(c) ==
  /\ session[c] # NoKey
  /\ session[c].state.val # Absent
  /\ WriteThrough(c, deleteProperty(session[c], now))
  /\ lastOp' = [op |-> "delete", client |-> c]
  /\ UNCHANGED <<now, redisReady, redisStore, metrics, alias, born>>
  /\ UNCHANGED rpcVars

\* The timers that are due.
DueTimers(s) == IF s = NoKey THEN {} ELSE {d \in s.saveTimeout : d <= now}

\* The debounce timer of the Session bound to client c fires.
WriteBack(c, d, fault) ==
  /\ session[c] # NoKey
  /\ d \in DueTimers(session[c])
  /\ redisStore' = save(redisStore, redisReady, session[c].token,
                        session[c].state, fault, now)
  /\ session' = [session EXCEPT ![c] =
                   [timerFired(@, d) EXCEPT
                      !.failed = ~(redisReady /\ fault = "none")]]
  /\ lastOp' = [op |-> "save", client |-> c, token |-> session[c].token,
                payload |-> session[c].state, bound |-> TRUE,
                stored |-> redisReady /\ fault = "none"]
  /\ UNCHANGED <<now, redisReady, memoryFallback, metrics, orphan, alias, born>>
  /\ UNCHANGED rpcVars

\* The debounce timer of a Session that client c dropped fires; nothing
\* references the Session afterwards.
WriteBackOrphan(c, d, fault) ==
  /\ orphan[c] # NoKey
  /\ d \in DueTimers(orphan[c])
  /\ redisStore' = save(redisStore, redisReady, orphan[c].token,
                        orphan[c].state, fault, now)
  /\ IF orphan[c].saveTimeout = {d}
     THEN /\ orphan' = [orphan EXCEPT ![c] = NoKey]
          /\ alias' = Leave(alias, {OrpH(c)})
     ELSE /\ orphan' = [orphan EXCEPT ![c] =
                          [timerFired(@, d) EXCEPT
                             !.failed = ~(redisReady /\ fault = "none")]]
          /\ alias' = alias
  /\ lastOp' = [op |-> "save", client |-> c, token |-> orphan[c].token,
                payload |-> orphan[c].state, bound |-> FALSE,
                stored |-> redisReady /\ fault = "none"]
  /\ UNCHANGED <<now, redisReady, memoryFallback, metrics, session, born>>
  /\ UNCHANGED rpcVars

\* The wall clock advances by `step` ms, `most` times at most.
TickBy(step, most) ==
  /\ now < most * step
  /\ now' = now + step
  /\ lastOp' = [op |-> "tick"]
  /\ UNCHANGED <<redisReady, redisStore, memoryFallback, metrics, born>>
  /\ UNCHANGED clientVars
  /\ UNCHANGED rpcVars

\* Sessions over their lifetime: Clients that log in, come back with the
\* token, log out and go away, while Redis comes and goes.  No handler
\* touches the session state and the clock stands still: the write-back is
\* the subject of DebounceSpec, expiry the subject of StoreSpec.
Next ==
  \/ RedisReadyEvent
  \/ RedisErrorEvent
  \/ \E c \in Clients : NewClient(c)
  \/ \E c \in Clients, k \in Tokens, f \in FaultsOf({"del", "setEx", "get"}) :
       StartSession(c, k, UserOf(k), f)
  \/ \E c \in Clients, k \in Tokens, f \in FaultsOf({"get", "del"}) :
       RestoreSession(c, k, f)
  \/ \E c \in Clients, f \in FaultsOf({"del"}) : FinalizeSession(c, f)
  \/ \E c \in Clients : Destroy(c)

Spec == InitStore /\ [][Next]_vars

\* One Client and one token, the clock in steps of half a debounce window:
\* the handlers of the Client assign and remove state keys at any pace.
NextDebounce ==
  \/ TickBy(FineMs, MaxFine)
  \/ RedisReadyEvent
  \/ RedisErrorEvent
  \/ \E f \in FaultsOf({"setEx", "get"}) : StartSession("c1", "T1", UserOf("T1"), f)
  \/ \E v \in Vals : Mutate("c1", v)
  \/ DeleteKey("c1")
  \/ \E f \in FaultsOf({"setEx"}) :
       \E d \in DueTimers(session["c1"]) : WriteBack("c1", d, f)
  \/ \E f \in FaultsOf({"setEx"}) :
       \E d \in DueTimers(orphan["c1"]) : WriteBackOrphan("c1", d, f)

DebounceSpec == InitStore /\ [][NextDebounce]_vars

\* Two Clients bound to one token: c1 logs in, c2 comes back with the
\* token (through Redis or through the fallback map), and the handlers of
\* both assign to the session state; the clock moves by whole windows.
NextWriters ==
  \/ TickBy(DebounceMs, MaxWindows)
  \/ RedisReadyEvent
  \/ RedisErrorEvent
  \/ \E f \in FaultsOf({"setEx"}) : StartSession("c1", "T1", UserOf("T1"), f)
  \/ \E f \in FaultsOf({"get"}) : RestoreSession("c2", "T1", f)
  \/ Mutate("c1", "a")
  \/ Mutate("c2", "b")
  \/ \E c \in Clients : \E d \in DueTimers(session[c]) : WriteBack(c, d, "none")
  \/ \E c \in Clients : \E d \in DueTimers(orphan[c]) : WriteBackOrphan(c, d, "none")

WritersSpec == InitStore /\ [][NextWriters]_vars

\* One Client that logs in, assigns to the session state and logs out
\* while the debounce timer of the assignment may still be pending.
NextLogout ==
  \/ TickBy(FineMs, MaxFine)
  \/ RedisReadyEvent
  \/ RedisErrorEvent
  \/ \E f \in FaultsOf({"setEx"}) : StartSession("c1", "T1", UserOf("T1"), f)
  \/ \E v \in Vals : Mutate("c1", v)
  \/ \E f \in FaultsOf({"del"}) : FinalizeSession("c1", f)
  \/ \E f \in FaultsOf({"setEx"}) :
       \E d \in DueTimers(session["c1"]) : WriteBack("c1", d, f)
  \/ \E f \in FaultsOf({"setEx"}) :
       \E d \in DueTimers(orphan["c1"]) : WriteBackOrphan("c1", d, f)

LogoutSpec == InitStore /\ [][NextLogout]_vars

\* DebounceSpec with the timers of Node: the clock advances and a timer
\* that is due fires.
DebounceFairSpec ==
  /\ DebounceSpec
  /\ WF_vars(TickBy(FineMs, MaxFine))
  /\ WF_vars(\E f \in FaultsOf({"setEx"}) :
               \E d \in DueTimers(session["c1"]) : WriteBack("c1", d, f))
  /\ WF_vars(\E f \in FaultsOf({"setEx"}) :
               \E d \in DueTimers(orphan["c1"]) : WriteBackOrphan("c1", d, f))

\* ------------------------------------------------------------------------
\* Claims about the session lifecycle (checked under Spec)
\* ------------------------------------------------------------------------

\* C5: destroy() never removes or invalidates the bound session: the step
\* leaves both tiers, the counters and the binding as they were, and when the
\* Client has a bound session that is in the store (created, no invalidation
\* requested since, unexpired) a lookup of its token after destroy() finds
\* it, so restoreSession(token) on any Client succeeds, whether Redis answers
\* the lookup or fails it.
C5_DestroyPreservesSession ==
  [][\A c \in Clients :
       (lastOp'.op = "destroy" /\ lastOp'.client = c) =>
          /\ redisStore' = redisStore
          /\ memoryFallback' = memoryFallback
          /\ metrics' = metrics
          /\ session' = session
          /\ (session[c] # NoKey) =>
               LET t == session[c].token
               IN  (born[t] # NoKey /\ now < born[t].at + TtlMs) =>
                     \A f \in {"none", "get"} :
                        getSession(SM', redisReady', t, f, now').result # NoKey]_vars

\* C5 witness: a Client whose bound session is in the store was destroyed.
C5_Witness ==
  /\ lastOp.op = "destroy"
  /\ session[lastOp.client] # NoKey
  /\ born[session[lastOp.client].token] # NoKey
  /\ redisStore[session[lastOp.client].token] # NoKey

\* C11: finalizeSession() on a Client with a bound session invalidates the
\* store entry of that session and unbinds it: after the step client.session
\* is null and getSession(token) reports not found; on a Client with no bound
\* session it returns false and changes neither the store nor any Client.
C11_FinalizeInvalidates ==
  [][\A c \in Clients :
       (lastOp'.op = "finalizeSession" /\ lastOp'.client = c) =>
          IF session[c] # NoKey
          THEN /\ lastOp'.result = TRUE
               /\ session'[c] = NoKey
               /\ getSession(SM', redisReady', session[c].token, "none", now').result
                    = NoKey
          ELSE /\ lastOp'.result = FALSE
               /\ redisStore' = redisStore
               /\ memoryFallback' = memoryFallback
               /\ metrics' = metrics
               /\ session' = session]_vars

\* C12: startSession(token, data) creates a session and binds it only when
\* the Client has no bound session; on a Client with a bound session the
\* step leaves the Client bound to the token it was bound to, creates no
\* store entry for the new token and does not invalidate the bound one.
C12_StartOnlyWhenUnbound ==
  [][\A c \in Clients :
       (lastOp'.op = "startSession" /\ lastOp'.client = c) =>
          IF session[c] = NoKey
          THEN /\ session'[c] # NoKey
               /\ session'[c].token = lastOp'.token
          ELSE /\ session'[c] # NoKey
               /\ session'[c].token = session[c].token
               /\ redisStore'[session[c].token] = redisStore[session[c].token]
               /\ memoryFallback'[session[c].token]
                    = memoryFallback[session[c].token]
               /\ (lastOp'.token # session[c].token) =>
                     /\ redisStore'[lastOp'.token] = redisStore[lastOp'.token]
                     /\ memoryFallback'[lastOp'.token]
                          = memoryFallback[lastOp'.token]]_vars

\* ------------------------------------------------------------------------
\* Claims about the write-back (checked under DebounceSpec)
\* ------------------------------------------------------------------------

\* C3: mutations of one Session's state that follow each other by less than
\* the debounce window produce exactly one write-back, carrying the state as
\* it is after the last of them: a Session never has two timers pending, a
\* Session with a mutation not yet written back has a timer pending, and a
\* write-back runs no earlier than 100 ms after the last mutation and stores
\* the whole state of that moment.
C3_ExactlyOneWriteBack ==
  [][\A c \in Clients :
       /\ (session'[c] # NoKey) =>
            /\ Cardinality(session'[c].saveTimeout) <= 1
            /\ session'[c].dirty => (session'[c].saveTimeout # {})
       /\ (lastOp'.op = "save" /\ lastOp'.client = c /\ lastOp'.bound) =>
            /\ now >= session[c].lastMutation + DebounceMs
            /\ session'[c].saveTimeout = {}
            /\ lastOp'.stored =>
                 Parse(redisStore'[session[c].token].json) = session[c].state]_vars

\* C6: once startSession(token, data) has completed, getSession(token)
\* returns a record with the fields of data and with expiresAt equal to the
\* creation time plus the TTL, also after state mutations were written back.
C6_RecordKeepsExpiry ==
  \A k \in Tokens :
     (born[k] # NoKey) =>
        LET r == getSession(SM, redisReady, k, "none", now).result
        IN  /\ r # NoKey
            /\ r.id = Some(born[k].user)
            /\ r.expiresAt = ToISOString(born[k].at + TtlMs)

\* ------------------------------------------------------------------------
\* Transport (src/src/transport.js): callback packets on the wire
\* ------------------------------------------------------------------------

\* JavaScript values of the packet fields.
Undefined == [undefined |-> TRUE]
Null == [null |-> TRUE]
Num(n) == [num |-> n]
Str(x) == [str |-> x]
IsNum(v) == DOMAIN v = {"num"}
Truthy(v) == v # Undefined /\ v # Null /\ v # Num(0) /\ v # Str("")

\* The transport of each Client: c1 is a WebSocket connection, every other
\* Client an HTTP request.
TransportOf(c) == IF c = "c1" THEN "ws" ELSE "http"

\* http.STATUS_CODES[httpCode]
STATUS_CODES(h) ==
  IF h = Num(200) THEN Str("OK")
  ELSE IF h = Num(400) THEN Str("Bad Request")
  ELSE IF h = Num(403) THEN Str("Forbidden")
  ELSE IF h = Num(404) THEN Str("Not Found")
  ELSE IF h = Num(500) THEN Str("Internal Server Error")
  ELSE Undefined

\* JSON.stringify of a packet: properties whose value is undefined are left
\* out, at the top level and inside `error`.
Defined(obj) == [k \in {x \in DOMAIN obj : obj[x] # Undefined} |-> obj[k]]
PacketText(packet) ==
  [k \in DOMAIN Defined(packet) |->
     IF k = "error" THEN Defined(packet.error) ELSE packet[k]]

\* Transport.error(code = 500, { id, error = null, httpCode = null }): the
\* packet and the HTTP status it is sent with.
TransportError(code0, id, error, httpCode0) ==
  LET code == IF code0 = Undefined THEN Num(500) ELSE code0
      httpCode == IF Truthy(httpCode0) THEN httpCode0
                  ELSE IF error # Null /\ Truthy(error.httpCode) THEN error.httpCode
                  ELSE code
      status == STATUS_CODES(httpCode)
      pass == IsNum(httpCode) /\ (httpCode.num < 500 \/ httpCode.num > 599)
      message == IF pass THEN (IF error = Null THEN Undefined ELSE error.message)
                 ELSE IF status # Undefined THEN status
                 ELSE Str("Unknown error")
  IN  [packet |-> [type |-> Str("callback"), id |-> id,
                   error |-> [message |-> message, code |-> code, status |-> status]],
       httpCode |-> httpCode]

\* res.writeHead(httpCode) throws ERR_HTTP_INVALID_STATUS_CODE unless the
\* code is an integer from 100 to 999.
ValidStatus(h) == IsNum(h) /\ h.num >= 100 /\ h.num <= 999

\* A transport whose write does not test res.writableEnded.
SendAlways(tr, kind, packet, httpCode, from) ==
  IF kind # "ws" /\ ~ValidStatus(httpCode) THEN [tr EXCEPT !.unhandled = TRUE]
  ELSE [tr EXCEPT !.written = Append(@, [status |-> IF kind = "ws" THEN Undefined
                                                    ELSE httpCode,
                                         from |-> from,
                                         text |-> PacketText(packet)]),
                  !.ended = (kind # "ws")]

\* Transport.send(obj, code) then HttpTransport.write / WsTransport.write on
\* the transport state tr = [written, ended, unhandled]; `from` is history,
\* the call on whose behalf the packet is written (0: none).
Send(tr, kind, packet, httpCode, from) ==
  IF kind = "ws"
  THEN [tr EXCEPT !.written = Append(@, [status |-> Undefined, from |-> from,
                                         text |-> PacketText(packet)])]
  ELSE IF tr.ended THEN tr
  ELSE IF ~ValidStatus(httpCode) THEN [tr EXCEPT !.unhandled = TRUE]
  ELSE [tr EXCEPT !.written = Append(@, [status |-> httpCode, from |-> from,
                                         text |-> PacketText(packet)]),
                  !.ended = TRUE]

\* ------------------------------------------------------------------------
\* Server.rpc: packet check, routing, handler settlement
\* ------------------------------------------------------------------------

MaxFrames == 2                  \* frames a WebSocket Client sends

\* The routing table: the keys "unit.method" that name a handler.
Routing == {<<"auth", "login">>}

\* The method strings of the packets: "auth/login", "auth/nope", "ping",
\* as the list of their parts between the slashes.
Methods == {[path |-> <<"auth", "login">>], [path |-> <<"auth", "nope">>],
            [path |-> <<"ping">>]}

\* The frames a Client sends: an empty buffer, text that is not JSON, the
\* JSON text `null`, and JSON objects with or without each packet field.
Packets ==
  [type : {Str("call"), Str("event")},
   id : {Undefined, Num(0), Num(1), Num(2)},
   args : {Undefined, Str("[]")},
   method : {Undefined} \cup Methods]
Frames ==
  {[kind |-> "empty", value |-> Null], [kind |-> "garbage", value |-> Null],
   [kind |-> "json", value |-> Null]}
  \cup {[kind |-> "json", value |-> p] : p \in Packets}

\* jsonParse(buffer) of src/lib/common.js
jsonParse(frame) == IF frame.kind = "json" THEN frame.value ELSE Null

\* new Error(message), and the errors and values handlers settle with.
Error(message) == [message |-> Str(message), code |-> Undefined, httpCode |-> Undefined]
Outcomes ==
  {[settle |-> "resolve", value |-> Str("ok")],
   [settle |-> "resolve", value |-> [Error("denied") EXCEPT !.code = Num(403)]],
   [settle |-> "resolve", value |-> [Error("db down") EXCEPT !.code = Num(500)]],
   [settle |-> "reject", value |-> Error("boom")],
   [settle |-> "reject", value |-> [Error("no file") EXCEPT !.code = Str("ENOENT")]],
   [settle |-> "reject", value |-> [Error("gone") EXCEPT !.code = Num(404)]]}
IsError(v) == DOMAIN v = {"message", "code", "httpCode"}

\* const [unit, method] = packet.method.split('/'); unit + '.' + method
RoutingKey(m) ==
  <<m.path[1], IF Len(m.path) >= 2 THEN m.path[2] ELSE "undefined">>

\* A routing table that answers every key with a handler.
routingGetAny(key) == TRUE

\* this.routing.get(unit + '.' + method) finds a handler
routingGet(key) == key \in Routing

\* The id a callback for call n carries: `id` of the closure of rpc.
callbackId(q, n) == q[n].id

Tr(c) == [written |-> written[c], ended |-> ended[c], unhandled |-> unhandled]
SetTr(c, tr) ==
  /\ written' = [written EXCEPT ![c] = tr.written]
  /\ ended' = [ended EXCEPT ![c] = tr.ended]
  /\ unhandled' = tr.unhandled

\* client.error(code, { id, error, httpCode }) on behalf of call n
ClientError(c, tr, code, id, error, httpCode, n) ==
  LET e == TransportError(code, id, error, httpCode)
  IN  Send(tr, TransportOf(c), e.packet, e.httpCode, n)

\* new Context(client): context.session is client.session || null, taken
\* when the handler is about to run.
Context(s) == s

\* The tail of rpc from `packet.method.split('/')` on, for call n of the
\* queue q: [tr, stage].
route(c, tr, q, n) ==
  IF q[n].method = Undefined
  THEN [tr |-> [tr EXCEPT !.unhandled = TRUE], stage |-> "thrown"]
  ELSE IF ~routingGet(RoutingKey(q[n].method))
  THEN [tr |-> ClientError(c, tr, Num(404), callbackId(q, n), Null, Null, n),
        stage |-> "done"]
  ELSE [tr |-> tr, stage |-> "running"]

\* Server.rpc(client, data) up to its first suspension: [tr, q].  A frame
\* that fails the packet check is answered at once; a call waits for
\* resumeCookieSession in the "session" Server and is routed at once in the
\* "stream" Server.
rpc(c, tr, q, frame) ==
  LET packet == jsonParse(frame)
      n == Len(q) + 1
  IN  IF packet = Null
      THEN [tr |-> ClientError(c, tr, Num(500), Undefined,
                               Error("JSON parsing error"), Null, 0),
            q |-> Append(q, [id |-> Undefined, method |-> Undefined,
                             stage |-> "rejected", cookie |-> NoKey,
                             context |-> NoKey])]
      ELSE IF packet.type # Str("call") \/ ~Truthy(packet.id) \/ ~Truthy(packet.args)
      THEN [tr |-> ClientError(c, tr, Num(400), packet.id,
                               Error("Packet structure error"), Null, 0),
            q |-> Append(q, [id |-> packet.id, method |-> Undefined,
                             stage |-> "rejected", cookie |-> NoKey,
                             context |-> NoKey])]
      ELSE LET q1 == Append(q, [id |-> packet.id, method |-> packet.method,
                                stage |-> "resume", cookie |-> NoKey,
                                context |-> NoKey])
           IN  IF variant = "session"
               THEN [tr |-> tr, q |-> q1]
               ELSE LET r == route(c, tr, q1, n)
                    IN  [tr |-> r.tr,
                         q |-> [q1 EXCEPT ![n].stage = r.stage,
                                          ![n].context =
                                             IF r.stage = "running"
                                             THEN Context(session[c])
                                             ELSE NoKey]]

\* A WebSocket Client sends a frame: connection.on('message').
Message(c, frame) ==
  /\ TransportOf(c) = "ws"
  /\ Len(calls[c]) < MaxFrames
  /\ LET r == rpc(c, Tr(c), calls[c], frame)
     IN  /\ SetTr(c, r.tr)
         /\ calls' = [calls EXCEPT ![c] = r.q]
  /\ lastOp' = [op |-> "rpc"]
  /\ UNCHANGED <<storeVars, clientVars, variant, born>>
  /\ UNCHANGED <<streamVars, otherVars>>

\* Server.request(client, packet) of the "stream" Server for the packet
\* { type: 'http', path: req.url } that stands for a request without body:
\* the first two characters of a path "/api..." name no handler.
request(c, tr, q) ==
  [tr |-> ClientError(c, tr, Num(404), Undefined, Null, Null, 0),
   q |-> Append(q, [id |-> Undefined, method |-> Undefined, stage |-> "rejected"])]

\* The body of a response without content.
NoBody == [k \in {} |-> Undefined]

\* An HTTP request arrives: new HttpTransport (which answers an OPTIONS
\* request itself), new Client, receiveBody, rpc.
Request(c, httpMethod, frame) ==
  /\ TransportOf(c) = "http"
  /\ server.listening
  /\ Len(calls[c]) = 0
  /\ LET tr0 == IF httpMethod = "OPTIONS"
                THEN [Tr(c) EXCEPT
                        !.written = Append(@, [status |-> Num(204), from |-> 0,
                                               text |-> NoBody]),
                        !.ended = TRUE]
                ELSE Tr(c)
         r == IF variant = "stream" /\ frame.kind = "empty"
              THEN request(c, tr0, calls[c])
              ELSE rpc(c, tr0, calls[c], frame)
     IN  /\ SetTr(c, r.tr)
         /\ calls' = [calls EXCEPT ![c] = r.q]
  /\ lastOp' = [op |-> "rpc"]
  /\ UNCHANGED <<storeVars, clientVars, variant, born>>
  /\ UNCHANGED <<streamVars, otherVars>>

\* Server.resumeCookieSession, then the rest of rpc: the call n of Client c
\* resumes after the await.  `cookie` is the session-id cookie of the
\* request (NoKey: none; a WebSocket transport has no cookies).  The call
\* keeps the cookie it came with and the context its handler was given.
Route(c, n, cookie, fault) ==
  /\ n \in 1..Len(calls[c])
  /\ calls[c][n].stage = "resume"
  /\ IF cookie # NoKey /\ session[c] = NoKey
     THEN restoreSession(c, cookie.token, fault)
     ELSE /\ lastOp' = [op |-> "rpc"]
          /\ UNCHANGED <<storeVars, clientVars, born>>
  /\ LET r == route(c, Tr(c), calls[c], n)
     IN  /\ SetTr(c, r.tr)
         /\ calls' = [calls EXCEPT ![c][n] =
                        [@ EXCEPT !.stage = r.stage,
                                  !.cookie = cookie,
                                  !.context = IF r.stage = "running"
                                              THEN Context(session'[c])
                                              ELSE NoKey]]
  /\ UNCHANGED variant
  /\ UNCHANGED <<streamVars, otherVars>>

\* The promise of the handler of call n settles: .then / .catch of rpc.
Settle(c, n, outcome) ==
  /\ n \in 1..Len(calls[c])
  /\ calls[c][n].stage = "running"
  /\ LET id == callbackId(calls[c], n)
         v == outcome.value
         tr == IF outcome.settle = "reject"
               THEN ClientError(c, Tr(c), v.code, id, v, Null, n)
               ELSE IF IsError(v)
               THEN ClientError(c, Tr(c), v.code, id, v,
                                IF v.httpCode = Undefined THEN Num(200)
                                ELSE v.httpCode, n)
               ELSE Send(Tr(c), TransportOf(c),
                         [type |-> Str("callback"), id |-> id, result |-> v],
                         Num(200), n)
     IN  SetTr(c, tr)
  /\ calls' = [calls EXCEPT ![c][n].stage = "done"]
  /\ lastOp' = [op |-> "settle", client |-> c, call |-> n, outcome |-> outcome]
  /\ UNCHANGED <<storeVars, clientVars, variant, born>>
  /\ UNCHANGED <<streamVars, otherVars>>

Cookies(c) ==
  IF TransportOf(c) = "http" THEN {NoKey, [token |-> "T1"]} ELSE {NoKey}

NextRpc ==
  \/ \E c \in Clients, frame \in Frames : Message(c, frame)
  \/ \E c \in Clients, m \in {"POST", "OPTIONS"}, frame \in Frames :
       Request(c, m, frame)
  \/ \E c \in Clients, n \in 1..MaxFrames :
       \E k \in Cookies(c) : Route(c, n, k, "none")
  \/ \E c \in Clients, n \in 1..MaxFrames, o \in Outcomes : Settle(c, n, o)

InitRpc == \E v \in {"session", "stream"} : InitWith(v)

RpcSpec == InitRpc /\ [][NextRpc]_vars

\* Requests that carry a session cookie, while Clients log in and out on
\* another connection, Redis comes and goes and the hours pass.
NextCookie ==
  \/ Tick
  \/ RedisReadyEvent
  \/ RedisErrorEvent
  \/ \E k \in Tokens : RedisExpire(k)
  \/ \E f \in FaultsOf({"setEx"}) : StartSession("c1", "T1", UserOf("T1"), f)
  \/ \E f \in FaultsOf({"del"}) : FinalizeSession("c1", f)
  \/ \E frame \in Frames : Request("c2", "POST", frame)
  \/ \E n \in 1..MaxFrames : \E k \in Cookies("c2") : Route("c2", n, k, "none")
  \/ \E n \in 1..MaxFrames, o \in Outcomes : Settle("c2", n, o)

CookieSpec == InitStore /\ [][NextCookie]_vars

\* ------------------------------------------------------------------------
\* BootstrapErrorHandler.withRetry
\* ------------------------------------------------------------------------

\* What an attempt settles with: a value it resolves with or an error it
\* rejects with.
Attempts ==
  {[ok |-> TRUE, value |-> "v1"], [ok |-> TRUE, value |-> "v2"],
   [ok |-> FALSE, value |-> "e1"], [ok |-> FALSE, value |-> "e2"]}

\* 2 to the power n
Pow2(n) == IF n = 0 THEN 1 ELSE IF n = 1 THEN 2 ELSE IF n = 2 THEN 4 ELSE 8

\* Math.min(baseDelay * Math.pow(2, attempt - 1), maxDelay), maxDelay at
\* its default of 10000
Delay(baseDelay, attempt) ==
  IF baseDelay * Pow2(attempt - 1) < 10000
  THEN baseDelay * Pow2(attempt - 1) ELSE 10000

\* withRetry from its call to the first `await operation()`: the loop is
\* entered when 1 <= maxRetries, else `throw lastError` is reached with
\* lastError undefined.
withRetry(maxRetries, baseDelay) ==
  [state |-> IF 1 <= maxRetries THEN "running" ELSE "thrown",
   maxRetries |-> maxRetries, baseDelay |-> baseDelay,
   attempt |-> 1, delay |-> 0, log |-> <<>>,
   out |-> IF 1 <= maxRetries THEN NoKey
           ELSE [kind |-> "throw", value |-> "undefined"]]

\* A withRetry that keeps the error of the first failed attempt.
settledFirstError(r, o) ==
  IF o.ok
  THEN [r EXCEPT !.state = "returned", !.log = Append(@, o),
                 !.out = [kind |-> "return", value |-> o.value]]
  ELSE IF r.attempt = r.maxRetries
  THEN [r EXCEPT !.state = "thrown", !.log = Append(@, o),
                 !.out = [kind |-> "throw",
                          value |-> Append(r.log, o)[1].value]]
  ELSE [r EXCEPT !.state = "waiting", !.log = Append(@, o),
                 !.delay = Delay(r.baseDelay, r.attempt)]

\* `await operation()` settles with o in attempt r.attempt: return the
\* value, or throw the error in the last attempt, or wait.
settled(r, o) ==
  IF o.ok
  THEN [r EXCEPT !.state = "returned", !.log = Append(@, o),
                 !.out = [kind |-> "return", value |-> o.value]]
  ELSE IF r.attempt = r.maxRetries
  THEN [r EXCEPT !.state = "thrown", !.log = Append(@, o),
                 !.out = [kind |-> "throw", value |-> o.value]]
  ELSE [r EXCEPT !.state = "waiting", !.log = Append(@, o),
                 !.delay = Delay(r.baseDelay, r.attempt)]

\* `await this.delay(delay)` is over: attempt++ and the loop test.
delayed(r) ==
  IF r.attempt + 1 <= r.maxRetries
  THEN [r EXCEPT !.state = "running", !.attempt = @ + 1, !.delay = 0]
  ELSE [r EXCEPT !.state = "thrown", !.attempt = @ + 1, !.delay = 0,
                 !.out = [kind |-> "throw", value |-> r.log[Len(r.log)].value]]

WithRetry(maxRetries, baseDelay) ==
  /\ retry.state = "idle"
  /\ retry' = withRetry(maxRetries, baseDelay)
  /\ lastOp' = [op |-> "withRetry"]
  /\ UNCHANGED <<storeVars, clientVars, variant, calls, written, ended,
                 unhandled, streamVars, server, finalizing, shutdown, born>>

OperationSettles(o) ==
  /\ retry.state = "running"
  /\ retry' = settled(retry, o)
  /\ lastOp' = [op |-> "withRetry"]
  /\ UNCHANGED <<storeVars, clientVars, variant, calls, written, ended,
                 unhandled, streamVars, server, finalizing, shutdown, born>>

DelayElapsed ==
  /\ retry.state = "waiting"
  /\ retry' = delayed(retry)
  /\ lastOp' = [op |-> "withRetry"]
  /\ UNCHANGED <<storeVars, clientVars, variant, calls, written, ended,
                 unhandled, streamVars, server, finalizing, shutdown, born>>

\* One call of withRetry with any options and any sequence of outcomes.
NextRetry ==
  \/ \E m \in 0..MaxRetries, b \in {1000, 2000, 8000} : WithRetry(m, b)
  \/ \E o \in Attempts : OperationSettles(o)
  \/ DelayElapsed

\* Every attempt settles and every timer fires.
RetrySpec == InitStore /\ [][NextRetry]_vars /\ WF_vars(NextRetry)

\* ------------------------------------------------------------------------
\* Server.close and SessionManager.close
\* ------------------------------------------------------------------------

\* Server.close() up to its first suspension.  The first call sets
\* httpServer._closed and calls sessionManager.close(), which awaits
\* redis.quit() when redis.isReady and returns at once otherwise; only when
\* that promise has resolved is httpServer.close() called.  A later call
\* resolves at once.
serverClose(srv, ready) ==
  IF srv._closed THEN srv
  ELSE IF ready
  THEN [srv EXCEPT !._closed = TRUE, !.redis = "quitting"]
  ELSE [srv EXCEPT !._closed = TRUE, !.listening = FALSE]

Close ==
  /\ server' = serverClose(server, redisReady)
  /\ lastOp' = [op |-> "close", first |-> ~server._closed]
  /\ UNCHANGED <<storeVars, clientVars, variant, calls, written, ended,
                 unhandled, streamVars, retry, finalizing, shutdown, born>>

\* redis.quit() settles: the connection to Redis is gone, sessionManager
\* .close() resolves and its .then calls httpServer.close(), which stops
\* the listener.
QuitDone ==
  /\ server.redis = "quitting"
  /\ server' = [server EXCEPT !.redis = "closed", !.listening = FALSE]
  /\ redisReady' = FALSE
  /\ lastOp' = [op |-> "quitDone"]
  /\ UNCHANGED <<now, redisStore, memoryFallback, metrics, clientVars, variant,
                 calls, written, ended, unhandled, streamVars, retry,
                 finalizing, shutdown, born>>

\* The frames that carry a call packet with id, args and a method.
CallFrames ==
  {f \in Frames : /\ f.kind = "json" /\ f.value # Null
                  /\ f.value.type = Str("call")
                  /\ Truthy(f.value.id) /\ Truthy(f.value.args)
                  /\ f.value.method # Undefined}

\* The server is told to close, once or more, while a WebSocket Client and an
\* HTTP request have calls in flight and Redis comes and goes.
NextClose ==
  \/ Close
  \/ QuitDone
  \/ RedisReadyEvent
  \/ RedisErrorEvent
  \/ \E frame \in CallFrames : Message("c1", frame)
  \/ \E frame \in CallFrames : Request("c2", "POST", frame)
  \/ \E c \in Clients, n \in 1..MaxFrames : Route(c, n, NoKey, "none")
  \/ \E c \in Clients, n \in 1..MaxFrames :
       \E o \in {x \in Outcomes : ~IsError(x.value) \/ x.value.code = Undefined} :
          Settle(c, n, o)

CloseSpec == InitStore /\ [][NextClose]_vars

\* ------------------------------------------------------------------------
\* BootstrapErrorHandler.handleGracefulShutdown
\* ------------------------------------------------------------------------

Triggers == {"SIGTERM", "SIGINT", "uncaughtException", "unhandledRejection"}

\* What the process does with a trigger that has no listener: a signal
\* ends it, an uncaught exception crashes it, an unhandled rejection
\* crashes it or is only reported, depending on the Node version.
Defaults(trigger) ==
  IF trigger \in {"SIGTERM", "SIGINT"} THEN {"signal"}
  ELSE IF trigger = "uncaughtException" THEN {"crash"}
  ELSE {"crash", "none"}

\* shutdown(signal) up to `await application.server.close()`: the flag,
\* process.removeAllListeners for the four triggers, state.setShuttingDown().
shutdownBegin(sd) ==
  IF sd.isShuttingDown THEN sd
  ELSE [sd EXCEPT !.isShuttingDown = TRUE, !.listeners = FALSE, !.state = TRUE,
                  !.stage = "closing", !.started = @ + 1]

\* A trigger reaches the process: the registered listener calls
\* shutdown(trigger), which calls server.close(); without a listener the
\* process takes its default action.
Trigger(trigger, default) ==
  /\ shutdown.stage # "exited"
  /\ default \in Defaults(trigger)
  /\ IF shutdown.listeners
     THEN /\ shutdown' = shutdownBegin(shutdown)
          /\ server' = IF shutdown.isShuttingDown THEN server
                       ELSE serverClose(server, redisReady)
     ELSE /\ shutdown' = IF default = "none" THEN shutdown
                         ELSE [shutdown EXCEPT !.stage = "exited", !.exit = default]
          /\ server' = server
  /\ lastOp' = [op |-> "trigger", trigger |-> trigger]
  /\ UNCHANGED <<storeVars, clientVars, variant, calls, written, ended,
                 unhandled, streamVars, retry, finalizing, born>>

\* server.close() has resolved and the rest of the sequence has run:
\* 'Graceful shutdown completed', setTimeout(process.exit(0), 1000).
ShutdownCompleted ==
  /\ shutdown.stage = "closing"
  /\ ~server.listening
  /\ shutdown' = [shutdown EXCEPT !.stage = "completed"]
  /\ lastOp' = [op |-> "shutdownCompleted"]
  /\ UNCHANGED <<storeVars, clientVars, variant, calls, written, ended,
                 unhandled, streamVars, server, retry, finalizing, born>>

\* The timer of the shutdown sequence fires: process.exit(0).
ForceExit ==
  /\ shutdown.stage = "completed"
  /\ shutdown' = [shutdown EXCEPT !.stage = "exited", !.exit = "0"]
  /\ lastOp' = [op |-> "exit"]
  /\ UNCHANGED <<storeVars, clientVars, variant, calls, written, ended,
                 unhandled, streamVars, server, retry, finalizing, born>>

\* Termination triggers in any number and order while the server runs and
\* Redis comes and goes.
NextShutdown ==
  \/ \E t \in Triggers, d \in {"signal", "crash", "none"} : Trigger(t, d)
  \/ ShutdownCompleted
  \/ ForceExit
  \/ QuitDone
  \/ RedisReadyEvent
  \/ RedisErrorEvent
  \/ \E frame \in CallFrames : Message("c1", frame)

ShutdownSpec == InitStore /\ [][NextShutdown]_vars

\* The handler of call n returned a promise that never settles: neither
\* .then nor .catch of rpc ever runs for the call.
Hang(c, n) ==
  /\ n \in 1..Len(calls[c])
  /\ calls[c][n].stage = "running"
  /\ calls' = [calls EXCEPT ![c][n].stage = "hung"]
  /\ lastOp' = [op |-> "hang", client |-> c, call |-> n]
  /\ UNCHANGED <<storeVars, clientVars, variant, written, ended, unhandled, born>>
  /\ UNCHANGED <<streamVars, otherVars>>

\* Calls of a WebSocket Client and of an HTTP request whose handlers settle
\* in any order or hang.
NextHung ==
  \/ \E frame \in CallFrames : Message("c1", frame)
  \/ \E frame \in CallFrames : Request("c2", "POST", frame)
  \/ \E c \in Clients, n \in 1..MaxFrames : Route(c, n, NoKey, "none")
  \/ \E c \in Clients, n \in 1..MaxFrames, o \in Outcomes : Settle(c, n, o)
  \/ \E c \in Clients, n \in 1..MaxFrames : Hang(c, n)

\* The event loop runs every continuation that is ready: a call that waits
\* for resumeCookieSession is routed, and a handler that has not hung
\* settles.  Each call is routed and settled once, so that fairness of
\* routing and of settling as a whole reaches every call.
HungSpec ==
  /\ InitStore
  /\ [][NextHung]_vars
  /\ WF_vars(\E c \in Clients, n \in 1..MaxFrames : Route(c, n, NoKey, "none"))
  /\ WF_vars(\E c \in Clients, n \in 1..MaxFrames, o \in Outcomes : Settle(c, n, o))

\* ------------------------------------------------------------------------
\* Stream reconstruction: Server.stream and Server.binary ("stream" Server)
\* ------------------------------------------------------------------------

\* The stream packets a Client sends: init (no status) with or without a
\* name, end and terminate.
StreamPackets ==
  [id : StreamIds, name : {Str("f.csv"), Undefined}, size : {Num(2)},
   status : {Undefined}]
  \cup [id : StreamIds, name : {Undefined}, size : {Undefined},
        status : {Str("end"), Str("terminate")}]

\* The binary chunks a Client sends, as chunkDecode returns them.
Chunks == [id : StreamIds, payload : Payloads]

\* new MetaReadable({ id, name, size, options }): a reconstructor with an
\* empty buffer.  `serial` tells one reconstructor object from another: it
\* is the position of the init packet among the frames of the Client.
MetaReadable(id, name, size, serial) ==
  [id |-> id, name |-> name, size |-> size, queue |-> <<>>,
   status |-> "active", serial |-> serial]

\* stream.push(payload), stream.close(), stream.terminate() of the
\* reconstructor class, which src/streams.js defines: push appends the
\* payload to the buffer, close makes the assembled sequence final,
\* terminate discards it; close and terminate settle before the next frame
\* of the connection is handled.
push(stream, payload) == [stream EXCEPT !.queue = Append(@, payload)]
close(stream) == [stream EXCEPT !.status = "closed"]
terminate(stream) == [stream EXCEPT !.queue = <<>>, !.status = "terminated"]

\* const tag = id + '/' + name
Tag(packet) ==
  ToString(packet.id) \o "/" \o
    (IF packet.name = Undefined THEN "undefined" ELSE packet.name.str)

\* typeof name === 'string' && Number.isSafeInteger(size)
ValidInit(packet) == DOMAIN packet.name = {"str"} /\ IsNum(packet.size)

\* Server.stream without the test for a reconstructor that already exists:
\* every valid init packet installs a new one.
streamReplacing(c, tr, st, packet, serial) ==
  LET id == packet.id
      s == st[id]
      fail(message) ==
        [tr |-> ClientError(c, tr, Num(400), Num(id), Error(message), Null, 0),
         streams |-> st, closed |-> NoKey]
  IN  IF Truthy(packet.status)
      THEN IF s = NoKey
           THEN fail("Stream " \o Tag(packet) \o " is not initialized")
           ELSE [tr |-> tr,
                 streams |-> [st EXCEPT ![id] = NoKey],
                 closed |-> IF packet.status = Str("end") THEN close(s)
                            ELSE terminate(s)]
      ELSE IF ~ValidInit(packet) THEN fail("Stream packet structure error")
      ELSE [tr |-> tr,
            streams |-> [st EXCEPT ![id] =
                           MetaReadable(id, packet.name, packet.size, serial)],
            closed |-> NoKey]

\* Server.stream(client, packet) on the stream map st of Client c:
\* [tr, streams, closed], closed being the reconstructor that the packet
\* removed from the map (NoKey: none).
stream(c, tr, st, packet, serial) ==
  LET id == packet.id
      s == st[id]
      fail(message) ==
        [tr |-> ClientError(c, tr, Num(400), Num(id), Error(message), Null, 0),
         streams |-> st, closed |-> NoKey]
  IN  IF Truthy(packet.status)
      THEN IF s = NoKey
           THEN fail("Stream " \o Tag(packet) \o " is not initialized")
           ELSE [tr |-> tr,
                 streams |-> [st EXCEPT ![id] = NoKey],
                 closed |-> IF packet.status = Str("end") THEN close(s)
                            ELSE IF packet.status = Str("terminate")
                            THEN terminate(s)
                            ELSE s]
      ELSE IF ~ValidInit(packet) THEN fail("Stream packet structure error")
      ELSE IF s # NoKey
      THEN fail("Stream " \o Tag(packet) \o " is already initialized")
      ELSE [tr |-> tr,
            streams |-> [st EXCEPT ![id] =
                           MetaReadable(id, packet.name, packet.size, serial)],
            closed |-> NoKey]

\* Server.binary that drops a chunk for an unknown stream id silently.
binaryDropping(c, tr, st, data) ==
  LET upstream == st[data.id]
  IN  [tr |-> tr,
       streams |-> IF upstream # NoKey
                   THEN [st EXCEPT ![data.id] = push(upstream, data.payload)]
                   ELSE st]

\* Server.binary that hands the chunk to the reconstructor it finds first,
\* whatever the id of the chunk.
binaryAnyStream(c, tr, st, data) ==
  LET live == {i \in StreamIds : st[i] # NoKey}
      first == CHOOSE i \in live : \A j \in live : i <= j
  IN  IF live # {}
      THEN [tr |-> tr,
            streams |-> [st EXCEPT ![first] = push(st[first], data.payload)]]
      ELSE [tr |-> ClientError(c, tr, Num(400), Num(data.id),
                               Error("Stream " \o ToString(data.id)
                                     \o " is not initialized"), Null, 0),
            streams |-> st]

\* Server.binary(client, data) with { id, payload } = chunkDecode(data):
\* [tr, streams].
binary(c, tr, st, data) ==
  LET upstream == st[data.id]
  IN  IF upstream # NoKey
      THEN [tr |-> tr,
            streams |-> [st EXCEPT ![data.id] = push(upstream, data.payload)]]
      ELSE [tr |-> ClientError(c, tr, Num(400), Num(data.id),
                               Error("Stream " \o ToString(data.id)
                                     \o " is not initialized"), Null, 0),
            streams |-> st]

\* What a frame is in the arrival history of its Client.
Kind(packet) ==
  IF packet.status = Str("end") THEN "end"
  ELSE IF packet.status = Str("terminate") THEN "terminate"
  ELSE IF ValidInit(packet) THEN "init"
  ELSE "invalid"

\* A text frame with a packet of type 'stream' on a WebSocket connection:
\* connection.on('message') -> Server.rpc -> Server.stream.
StreamPacket(c, packet) ==
  /\ variant = "stream"
  /\ TransportOf(c) = "ws"
  /\ Len(arrived[c]) < MaxArrived
  /\ LET at == Len(arrived[c]) + 1
         r == stream(c, Tr(c), streams[c], packet, at)
     IN  /\ SetTr(c, r.tr)
         /\ streams' = [streams EXCEPT ![c] = r.streams]
         /\ closed' = IF r.closed = NoKey THEN closed
                      ELSE [closed EXCEPT ![c] = [stream |-> r.closed, at |-> at]]
  /\ arrived' = [arrived EXCEPT ![c] =
                   Append(@, [kind |-> Kind(packet), id |-> packet.id,
                              payload |-> Absent])]
  /\ lastOp' = [op |-> "stream", client |-> c, kind |-> Kind(packet),
                id |-> packet.id, had |-> streams[c][packet.id] # NoKey,
                packet |-> packet]
  /\ UNCHANGED <<storeVars, clientVars, variant, calls, otherVars, born>>

\* A binary frame on a WebSocket connection: connection.on('message') with
\* isBinary -> Server.binary.
Binary(c, data) ==
  /\ variant = "stream"
  /\ TransportOf(c) = "ws"
  /\ Len(arrived[c]) < MaxArrived
  /\ LET r == binary(c, Tr(c), streams[c], data)
     IN  /\ SetTr(c, r.tr)
         /\ streams' = [streams EXCEPT ![c] = r.streams]
  /\ arrived' = [arrived EXCEPT ![c] =
                   Append(@, [kind |-> "chunk", id |-> data.id,
                              payload |-> Some(data.payload)])]
  /\ lastOp' = [op |-> "binary", client |-> c, kind |-> "chunk",
                id |-> data.id, had |-> streams[c][data.id] # NoKey]
  /\ UNCHANGED <<storeVars, clientVars, variant, calls, closed, otherVars, born>>

\* Uploads over one WebSocket connection: stream packets and binary chunks
\* of several stream ids in any order.
NextStream ==
  \/ \E c \in Clients, packet \in StreamPackets : StreamPacket(c, packet)
  \/ \E c \in Clients, data \in Chunks : Binary(c, data)

StreamSpec == InitWith("stream") /\ [][NextStream]_vars

\* The number 3/2 as a packet field: a number that is no integer.
Fraction == [num |-> 3, over |-> 2]

\* Init packets with every kind of name and size, and the packets that
\* finalize a stream.
InitPackets ==
  [id : StreamIds, name : {Str("f.csv"), Undefined, Num(7)},
   size : {Num(2), Num(0), Num(0 - 1), Fraction, Str("2"), Undefined},
   status : {Undefined}]
  \cup [id : StreamIds, name : {Undefined}, size : {Undefined},
        status : {Str("end")}]

\* Init packets of every shape on one connection, each handled to its end
\* before the next frame.
NextInit == \E packet \in InitPackets : StreamPacket("c1", packet)

InitSpec == InitWith("stream") /\ [][NextInit]_vars

\* The control packets a Client can send: a status of "end", of
\* "terminate", or any other JSON value, next to the init packets that
\* open the streams.
ControlPackets ==
  [id : StreamIds, name : {Str("f.csv")}, size : {Num(2)}, status : {Undefined}]
  \cup [id : StreamIds, name : {Undefined}, size : {Undefined},
        status : {Str("end"), Str("terminate"), Str("pause"), Num(1), Str("")}]

\* Control packets of every status on one connection, each handled to its
\* end before the next frame.
NextControl == \E packet \in ControlPackets : StreamPacket("c1", packet)

ControlSpec == InitWith("stream") /\ [][NextControl]_vars

\* Server.stream suspends at `await stream.close()` and at `await
\* stream.terminate()`; connection.on('message') does not wait for it, so
\* the frames that arrive meanwhile are handled before it resumes.

\* TRUE when Server.stream reaches one of its awaits for the packet.
Awaits(c, packet) ==
  /\ packet.status \in {Str("end"), Str("terminate")}
  /\ streams[c][packet.id] # NoKey

\* Server.stream for a packet that is handled without an await.
StreamPacketNow(c, packet) ==
  /\ ~Awaits(c, packet)
  /\ StreamPacket(c, packet)

\* Server.stream for an end / terminate packet up to its await: the
\* reconstructor was found and close() or terminate() is called.
FinalizeBegin(c, packet) ==
  /\ variant = "stream"
  /\ TransportOf(c) = "ws"
  /\ Len(arrived[c]) < MaxArrived
  /\ Awaits(c, packet)
  /\ finalizing' = [finalizing EXCEPT ![c] =
                      @ \cup {[id |-> packet.id, kind |-> Kind(packet),
                               at |-> Len(arrived[c]) + 1]}]
  /\ arrived' = [arrived EXCEPT ![c] =
                   Append(@, [kind |-> Kind(packet), id |-> packet.id,
                              payload |-> Absent])]
  /\ closed' = [closed EXCEPT ![c] =
                  [stream |-> IF packet.status = Str("end")
                              THEN close(streams[c][packet.id])
                              ELSE terminate(streams[c][packet.id]),
                   at |-> Len(arrived[c]) + 1]]
  /\ lastOp' = [op |-> "stream", client |-> c, kind |-> Kind(packet),
                id |-> packet.id, had |-> TRUE, packet |-> packet]
  /\ UNCHANGED <<storeVars, clientVars, variant, calls, written, ended,
                 unhandled, streams, server, retry, shutdown, born>>

\* Server.stream after its await: `return void client.streams.delete(id)`.
FinalizeDone(c, f) ==
  /\ f \in finalizing[c]
  /\ finalizing' = [finalizing EXCEPT ![c] = @ \ {f}]
  /\ streams' = [streams EXCEPT ![c] = [@ EXCEPT ![f.id] = NoKey]]
  /\ lastOp' = [op |-> "finalized", client |-> c, kind |-> f.kind,
                id |-> f.id, had |-> streams[c][f.id] # NoKey]
  /\ UNCHANGED <<storeVars, clientVars, variant, calls, written, ended,
                 unhandled, arrived, closed, server, retry, shutdown, born>>

\* The frames of one upload connection, each handled while the finalizations
\* of earlier frames may still wait.
NextFinalize ==
  \/ \E packet \in StreamPackets : StreamPacketNow("c1", packet)
  \/ \E packet \in StreamPackets : FinalizeBegin("c1", packet)
  \/ \E f \in finalizing["c1"] : FinalizeDone("c1", f)
  \/ \E data \in Chunks : Binary("c1", data)

FinalizeSpec == InitWith("stream") /\ [][NextFinalize]_vars

\* ------------------------------------------------------------------------
\* Claims about the dispatcher (checked under RpcSpec)
\* ------------------------------------------------------------------------

\* The packets written on behalf of call n of Client c.
PacketsOf(c, n) == {i \in 1..Len(written[c]) : written[c][i].from = n}
\* The frame n of Client c passed the packet check and names a method.
Dispatched(c, n) == calls[c][n].stage # "rejected" /\ calls[c][n].method # Undefined
\* The HTTP response of Client c was finalized by the OPTIONS preflight
\* answer before the body of the request was read.
Preflight(c) == Len(written[c]) > 0 /\ written[c][1].text = NoBody

C2_OneCallbackPerCall ==
  \A c \in Clients : \A n \in 1..Len(calls[c]) :
     (Dispatched(c, n) /\ ~Preflight(c)) =>
        /\ Cardinality(PacketsOf(c, n)) <= 1
        /\ (calls[c][n].stage = "done") => (Cardinality(PacketsOf(c, n)) = 1)
        /\ \A i \in PacketsOf(c, n) :
             /\ written[c][i].text.type = Str("callback")
             /\ "id" \in DOMAIN written[c][i].text
             /\ written[c][i].text.id = calls[c][n].id

\* ------------------------------------------------------------------------
\* Claims about the session cookie (checked under CookieSpec)
\* ------------------------------------------------------------------------

\* The token names a session that was created, whose invalidation was not
\* requested since, and whose TTL has not elapsed.
Live(k) == born[k] # NoKey /\ now < born[k].at + TtlMs

\* The tier that answers a lookup holds a record for the token.
InStore(k) ==
  IF redisReady THEN redisStore[k] # NoKey ELSE memoryFallback[k] # NoKey

\* C13: a call that arrives on an HTTP transport is dispatched with
\* context.session bound to the session that the request's session cookie
\* names when the token names a live session in the store, and with
\* context.session null when the request has no session cookie or the
\* cookie names an unknown or expired token.
C13_ContextFollowsCookie ==
  [][\A c \in Clients, n \in 1..MaxFrames :
       ( /\ TransportOf(c) = "http"
         /\ n \in DOMAIN calls[c] /\ n \in DOMAIN calls'[c]
         /\ calls[c][n].stage = "resume"
         /\ calls'[c][n].stage = "running" ) =>
          LET k == calls'[c][n].cookie
              ctx == calls'[c][n].context
          IN  IF k = NoKey THEN ctx = NoKey
              ELSE IF Live(k.token)
              THEN InStore(k.token) => (ctx # NoKey /\ ctx.token = k.token)
              ELSE ctx = NoKey]_vars

\* ------------------------------------------------------------------------
\* Claims about stream reconstruction (checked under StreamSpec)
\* ------------------------------------------------------------------------

\* The last packet the transport of Client c wrote is a callback packet with
\* error code 400 for stream id.
Answered400(c, id) ==
  /\ Len(written'[c]) = Len(written[c]) + 1
  /\ LET text == written'[c][Len(written'[c])].text
     IN  /\ text.type = Str("callback")
         /\ "id" \in DOMAIN text /\ text.id = Num(id)
         /\ "error" \in DOMAIN text /\ text.error.code = Num(400)

\* C14: a stream init packet for id X on a Client that holds a reconstructor
\* for X is answered with a 400 error, and the reconstructor stays in the
\* stream map of the Client as it was: the same object with the same
\* buffered data; no other stream of the Client changes either.
C14_DoubleInitRejected ==
  [][\A c \in Clients, X \in StreamIds :
       ( /\ lastOp'.op = "stream" /\ lastOp'.client = c /\ lastOp'.id = X
         /\ lastOp'.kind \in {"init", "invalid"}
         /\ arrived'[c] # arrived[c]
         /\ streams[c][X] # NoKey ) =>
          /\ Answered400(c, X)
          /\ streams'[c] = streams[c]]_vars

\* C14 witness: a second init for a stream id whose reconstructor has
\* buffered a chunk was answered, and the reconstructor still holds it.
C14_Witness ==
  /\ lastOp.op = "stream" /\ lastOp.kind = "init" /\ lastOp.had
  /\ streams[lastOp.client][lastOp.id] # NoKey
  /\ streams[lastOp.client][lastOp.id].queue # <<>>
  /\ streams[lastOp.client][lastOp.id].serial < Len(arrived[lastOp.client]) - 1

\* C15: a binary chunk whose stream id has no reconstructor on the Client is
\* answered with a 400 error for that id; no reconstructor is created, the
\* other streams of the Client stay as they were and the connection stays
\* open (no exception escapes the handler).
C15_UnknownChunkRejected ==
  [][\A c \in Clients, X \in StreamIds :
       ( /\ lastOp'.op = "binary" /\ lastOp'.client = c /\ lastOp'.id = X
         /\ arrived'[c] # arrived[c]
         /\ streams[c][X] = NoKey ) =>
          /\ Answered400(c, X)
          /\ streams'[c] = streams[c]
          /\ ~unhandled']_vars

\* C15 witness: a chunk for an unknown stream id was answered while another
\* stream of the Client was receiving data.
C15_Witness ==
  /\ lastOp.op = "binary" /\ ~lastOp.had
  /\ \E X \in StreamIds :
       /\ X # lastOp.id
       /\ streams[lastOp.client][X] # NoKey
       /\ streams[lastOp.client][X].queue # <<>>

\* The payloads of the chunks for stream X among the frames from..to of
\* Client c, in arrival order.
ChunksOf(c, X, from, to) ==
  LET sel == SelectSeq(SubSeq(arrived[c], from, to),
                       LAMBDA e : e.kind = "chunk" /\ e.id = X)
  IN  [i \in 1..Len(sel) |-> sel[i].payload[1]]

C17_WriteAfterEndIsNoOp ==
  \A c \in Clients :
     (TransportOf(c) = "http") =>
        LET ok(t) == Send(t, "http", [type |-> Str("callback"), id |-> Num(1),
                                      result |-> Str("ok")], Num(200), 0)
            err(t) == ClientError(c, t, Num(500), Num(1), Error("boom"), Null, 0)
        IN  /\ Len(written[c]) <= 1
            /\ ended[c] <=> (Len(written[c]) = 1)
            /\ ended[c] => (ok(Tr(c)) = Tr(c) /\ err(Tr(c)) = Tr(c))
            /\ Len(ok(err(Tr(c))).written) = 1
            /\ Len(err(ok(Tr(c))).written) = 1
            /\ ok(err(Tr(c))) = err(Tr(c))
            /\ err(ok(Tr(c))) = ok(Tr(c))

\* C17 witness: the handler of a call settled after the response of its
\* request had been finalized, and its write left no packet.
C17_Witness ==
  \E c \in Clients :
     /\ TransportOf(c) = "http"
     /\ ended[c]
     /\ \E n \in 1..Len(calls[c]) :
          /\ Dispatched(c, n)
          /\ calls[c][n].stage = "done"
          /\ PacketsOf(c, n) = {}

\* The error code is a number of the 5xx class.
Error5xx(code) == IsNum(code) /\ code.num >= 500 /\ code.num <= 599

\* C18: every error a transport sends is a callback-shaped packet, and when
\* the error is of 5xx class the message of the packet is the generic HTTP
\* status phrase of its code, never the message of the error itself.
C18_ServerErrorsAreGeneric ==
  \A c \in Clients : \A i \in 1..Len(written[c]) :
     LET text == written[c][i].text
     IN  ("error" \in DOMAIN text) =>
            /\ text.type = Str("callback")
            /\ Error5xx(text.error.code) =>
                  /\ "message" \in DOMAIN text.error
                  /\ text.error.message = STATUS_CODES(text.error.code)

\* C19: when the handler of a call rejects or resolves with an error-shaped
\* value (and the response of the request is still open), the caller
\* receives one callback error packet for the call; its code is the code of
\* the error, 500 when the error has none; on HTTP its status is the
\* httpCode of the error, else the code of the error, else 500; its message
\* is not the message of the error when the code is of 5xx class.
C19_HandlerErrorPacket ==
  [][\A c \in Clients, n \in 1..MaxFrames :
       ( /\ lastOp'.op = "settle" /\ lastOp'.client = c /\ lastOp'.call = n
         /\ n \in DOMAIN calls[c] /\ calls[c][n].stage = "running"
         /\ ~ended[c]
         /\ (lastOp'.outcome.settle = "reject" \/ IsError(lastOp'.outcome.value)) ) =>
          LET v == lastOp'.outcome.value
              code == IF v.code = Undefined THEN Num(500) ELSE v.code
              status == IF v.httpCode # Undefined THEN v.httpCode ELSE code
          IN  /\ Len(written'[c]) = Len(written[c]) + 1
              /\ LET sent == written'[c][Len(written'[c])]
                 IN  /\ sent.from = n
                     /\ sent.text.type = Str("callback")
                     /\ "id" \in DOMAIN sent.text /\ sent.text.id = calls[c][n].id
                     /\ "error" \in DOMAIN sent.text
                     /\ sent.text.error.code = code
                     /\ (TransportOf(c) = "http") => (sent.status = status)
                     /\ Error5xx(code) =>
                           /\ "message" \in DOMAIN sent.text.error
                           /\ sent.text.error.message # v.message]_vars

\* The step wrote one packet on the transport of Client c: an error of the
\* 400 class that carries one of the messages msgs.
ProtocolError(c, msgs) ==
  /\ Len(written'[c]) = Len(written[c]) + 1
  /\ LET text == written'[c][Len(written'[c])].text
     IN  /\ "error" \in DOMAIN text
         /\ IsNum(text.error.code)
         /\ text.error.code.num >= 400 /\ text.error.code.num <= 499
         /\ "message" \in DOMAIN text.error
         /\ text.error.message \in msgs

\* C20: every protocol error is answered (on a transport whose response is
\* still open) with an error of the 400 class whose message is the message
\* of the original error: a frame that is not JSON or a packet that fails
\* the packet check, a binary chunk or an end / terminate packet for a
\* stream id without reconstructor, an init packet for a live stream id.
C20_ProtocolErrorsAre400 ==
  [][\A c \in Clients :
       /\ ( /\ Len(calls'[c]) = Len(calls[c]) + 1
            /\ calls'[c][Len(calls'[c])].stage = "rejected"
            /\ ~ended[c] ) =>
             ProtocolError(c, {Str("JSON parsing error"),
                               Str("Packet structure error")})
       /\ ( /\ lastOp'.op \in {"stream", "binary"} /\ lastOp'.client = c
            /\ arrived'[c] # arrived[c]
            /\ IF lastOp'.kind = "init" THEN lastOp'.had
               ELSE lastOp'.kind # "invalid" /\ ~lastOp'.had ) =>
             ProtocolError(c,
               {Str("Stream " \o ToString(lastOp'.id) \o " is not initialized"),
                Str("Stream " \o ToString(lastOp'.id)
                      \o "/undefined is not initialized"),
                Str("Stream " \o ToString(lastOp'.id)
                      \o "/f.csv is already initialized")})]_vars

\* C21: no inbound frame and no handler outcome terminates a connection or
\* the process: whatever frames arrive and however handlers settle, no
\* exception escapes Server.rpc or the transport to the process-wide
\* 'uncaughtException' / 'unhandledRejection' handlers, which shut the
\* server down.
C21_NoFrameEndsProcess == ~unhandled

\* ------------------------------------------------------------------------
\* Claims about closing the server (checked under CloseSpec)
\* ------------------------------------------------------------------------

\* C22: after close() was called on the server no new connection is
\* accepted; close() leaves the calls dispatched before it and what was
\* written for them as they are; once the HTTP server has stopped listening
\* the connection to Redis is released; a second close() changes nothing.
C22_CloseStopsAccepting ==
  [][/\ server._closed =>
          \A c \in Clients :
             (TransportOf(c) = "http" /\ Len(calls[c]) = 0) => Len(calls'[c]) = 0
     /\ (lastOp'.op = "close" /\ server' # server) =>
          (calls' = calls /\ written' = written /\ ended' = ended)
     /\ ~server'.listening => server'.redis = "closed"
     /\ (lastOp'.op = "close" /\ server._closed) =>
          (server' = server /\ redisReady' = redisReady /\ calls' = calls)]_vars

\* ------------------------------------------------------------------------
\* Claims about withRetry (checked under RetrySpec)
\* ------------------------------------------------------------------------

C24_MutationIsWrittenBack ==
  \A t \in {i * FineMs : i \in 0..(MaxFine - 2)} :
    (/\ session["c1"] # NoKey
     /\ session["c1"].dirty
     /\ session["c1"].lastMutation = t)
    ~> (\/ session["c1"] = NoKey
        \/ ~session["c1"].dirty
        \/ session["c1"].lastMutation # t)

\* C25: every mutation restarts the debounce timer: after a key of the
\* state was assigned or removed the Session has one timer, due 100 ms
\* later, and the write-back of a Session, bound or dropped, runs no earlier
\* than 100 ms after the most recent mutation made through it.
C25_TimerRestartedByMutation ==
  [][\A c \in Clients :
       /\ (lastOp'.op \in {"set", "delete"} /\ lastOp'.client = c) =>
            session'[c].saveTimeout = {now + DebounceMs}
       /\ (lastOp'.op = "save" /\ lastOp'.client = c) =>
            now >= DebounceMs +
                   (IF lastOp'.bound THEN session[c].lastMutation
                    ELSE orphan[c].lastMutation)]_vars

C27_FallbackCopyFollowsWriteBack ==
  [][\A c \in Clients :
       (lastOp'.op = "save" /\ lastOp'.client = c /\ lastOp'.stored) =>
          LET r == getSession(SM', FALSE, lastOp'.token, "none", now')
          IN  (r.result # NoKey) =>
                 /\ r.path = "memory"
                 /\ r.result.val = lastOp'.payload.val
                 /\ r.result.val = Parse(redisStore'[lastOp'.token].json).val]_vars

\* ------------------------------------------------------------------------
\* Claims about two writers of one token (checked under WritersSpec)
\* ------------------------------------------------------------------------

\* C28: a write-back replaces what Redis holds for the token by the whole
\* snapshot of the Session that wrote: after it the stored record has the
\* properties of that Session's state and no other, whatever another
\* Session of the token wrote before, and the other keys are untouched.
C28_LastWriteWins ==
  [][\A c \in Clients :
       (lastOp'.op = "save" /\ lastOp'.client = c /\ lastOp'.stored) =>
          LET writer == IF lastOp'.bound THEN session[c] ELSE orphan[c]
          IN  /\ lastOp'.payload = writer.state
              /\ Parse(redisStore'[writer.token].json) = writer.state
              /\ \A k \in Tokens \ {writer.token} :
                   redisStore'[k] = redisStore[k]]_vars

\* C28 witness: both Clients are bound to the same token and hold different
\* state objects with different content, Redis held the snapshot of one of
\* them, and the other one has just written its own.
C28_Witness ==
  /\ lastOp.op = "save"
  /\ lastOp.stored
  /\ session["c1"] # NoKey
  /\ session["c2"] # NoKey
  /\ session["c1"].token = session["c2"].token
  /\ session["c1"].state.val # Absent
  /\ session["c2"].state.val # Absent
  /\ session["c1"].state # session["c2"].state
  /\ session["c1"].state.createdAt # session["c2"].state.createdAt
  /\ ~session["c1"].dirty
  /\ ~session["c2"].dirty
  /\ ~session["c1"].failed
  /\ ~session["c2"].failed

\* ------------------------------------------------------------------------
\* Further claims about the session store (checked under StoreSpec)
\* ------------------------------------------------------------------------

\* C29: a session whose copy in the fallback map is unexpired is returned
\* by getSession whenever Redis does not serve the lookup, because it is
\* not ready, because redis.get rejects or because it no longer holds the
\* key: the lookup returns the fallback copy and leaves it in the map.
C29_FallbackServesLookup ==
  [][\A k \in Tokens :
       (/\ lastOp'.op = "getSession"
        /\ lastOp'.token = k
        /\ memoryFallback[k] # NoKey
        /\ ~IsExpired(memoryFallback[k], now)
        /\ (~redisReady \/ lastOp'.fault = "get" \/ redisStore[k] = NoKey)) =>
          /\ lastOp'.result = memoryFallback[k]
          /\ lastOp'.path = "memory"
          /\ memoryFallback'[k] = memoryFallback[k]]_vars

\* C29 witness: a session that was created while Redis was ready (Redis
\* holds its key) was looked up while Redis did not answer, and the lookup
\* returned the copy of the fallback map.
C29_Witness ==
  /\ lastOp.op = "getSession"
  /\ lastOp.path = "memory"
  /\ lastOp.result # NoKey
  /\ lastOp.result.createdAt # Absent
  /\ redisStore[lastOp.token] # NoKey
  /\ born[lastOp.token] # NoKey

\* C30: invalidateAllSessions() leaves no session in Redis and none in the
\* fallback map, returns the number of sessions it removed, a session that
\* was in both tiers counted once, and sets activeSessions to zero.
C30_InvalidateAllCountsOnce ==
  [][(lastOp'.op = "invalidateAllSessions") =>
       /\ \A k \in Tokens : redisStore'[k] = NoKey /\ memoryFallback'[k] = NoKey
       /\ lastOp'.result =
            Cardinality({k \in Tokens :
                           redisStore[k] # NoKey \/ memoryFallback[k] # NoKey})
       /\ metrics'.activeSessions = 0]_vars

\* C31: cleanupExpired() removes from the fallback map exactly the entries
\* whose expiresAt lies before the current time and returns their number;
\* every other entry of the fallback map and all of Redis stay as they were.
C31_CleanupSweepsExpiredOnly ==
  [][(lastOp'.op = "cleanupExpired") =>
       /\ \A k \in Tokens :
            memoryFallback'[k] =
              IF memoryFallback[k] # NoKey /\ IsExpired(memoryFallback[k], now)
              THEN NoKey ELSE memoryFallback[k]
       /\ lastOp'.result =
            Cardinality({k \in Tokens : /\ memoryFallback[k] # NoKey
                                       /\ IsExpired(memoryFallback[k], now)})
       /\ redisStore' = redisStore]_vars

\* C31 witness: a sweep removed an expired entry, kept an unexpired one and
\* ran while Redis held a key.
C31_Witness ==
  /\ lastOp.op = "cleanupExpired"
  /\ lastOp.result = 1
  /\ \E k \in Tokens : /\ memoryFallback[k] # NoKey
                       /\ memoryFallback[k].expiresAt # Absent
                       /\ redisStore[k] # NoKey

\* ------------------------------------------------------------------------
\* Claims about the finalization of streams (checked under FinalizeSpec)
\* ------------------------------------------------------------------------

\* C32: an end or terminate packet for a stream id whose last init, end or
\* terminate packet on the Client was an end or a terminate (or that never
\* had an init) is answered with a 400 error for that id, whether or not
\* the handling of the earlier packet has finished; and once an end or
\* terminate packet has been handled to its end the stream map of the
\* Client has no reconstructor for the id.
C32_SecondFinalizeRejected ==
  [][\A c \in Clients, X \in StreamIds :
       /\ ( /\ lastOp'.op = "stream" /\ lastOp'.client = c /\ lastOp'.id = X
            /\ lastOp'.kind \in {"end", "terminate"}
            /\ arrived'[c] # arrived[c]
            /\ LET about == SelectSeq(arrived[c],
                               LAMBDA e : e.id = X /\ e.kind \in {"init", "end", "terminate"})
               IN  IF about = <<>> THEN TRUE
                   ELSE about[Len(about)].kind \in {"end", "terminate"} ) =>
              Answered400(c, X)
       /\ ( /\ lastOp'.op \in {"stream", "finalized"} /\ lastOp'.client = c
            /\ lastOp'.id = X /\ lastOp'.kind \in {"end", "terminate"}
            /\ finalizing'[c] = {} ) =>
              streams'[c][X] = NoKey]_vars

\* ------------------------------------------------------------------------
\* Claims about stream init packets (checked under InitSpec)
\* ------------------------------------------------------------------------

\* C33: an init packet (no status) creates a reconstructor only when its
\* name is a string and its size is an integer that is not negative: every
\* other init packet is answered with a 400 error for its id and leaves the
\* stream map of the Client as it was, and a packet of that shape for an id
\* without a reconstructor installs one.
C33_InitValidated ==
  [][\A c \in Clients :
       ( /\ lastOp'.op = "stream" /\ lastOp'.client = c
         /\ arrived'[c] # arrived[c]
         /\ ~Truthy(lastOp'.packet.status) ) =>
          LET p == lastOp'.packet
              wellFormed == /\ DOMAIN p.name = {"str"}
                            /\ DOMAIN p.size = {"num"}
                            /\ p.size.num >= 0
          IN  IF wellFormed
              THEN (streams[c][p.id] = NoKey) => (streams'[c][p.id] # NoKey)
              ELSE /\ Answered400(c, p.id)
                   /\ streams'[c] = streams[c]]_vars

\* ------------------------------------------------------------------------
\* Claims about handlers that hang (checked under HungSpec)
\* ------------------------------------------------------------------------

\* C34: while the handler of one call hangs, every other call whose handler
\* runs, on the same Client or on another one, is answered in the end: the
\* transport of its Client writes a packet for it, unless its own handler
\* hangs too.
C34_HungHandlerDelaysOnlyItself ==
  \A d \in Clients, m \in 1..MaxFrames :
    (IF m <= Len(calls[d])
     THEN /\ calls[d][m].stage = "running"
          /\ \E c \in Clients : \E n \in 1..Len(calls[c]) :
                calls[c][n].stage = "hung"
     ELSE FALSE)
    ~> (IF m <= Len(calls[d])
        THEN \/ calls[d][m].stage = "hung"
             \/ \E i \in 1..Len(written[d]) : written[d][i].from = m
        ELSE FALSE)

\* ------------------------------------------------------------------------
\* Claims about the shutdown sequence (checked under ShutdownSpec)
\* ------------------------------------------------------------------------

\* C35: whatever termination triggers arrive, the shutdown sequence starts
\* at most once; a trigger that arrives after it has started changes
\* nothing, the sequence goes on as if it had not arrived; and the step
\* that calls server.close() has marked the application state as shutting
\* down.
C35_ShutdownStartsOnce ==
  [][/\ shutdown'.started <= 1
     /\ (lastOp'.op = "trigger" /\ shutdown.isShuttingDown) =>
          /\ shutdown' = shutdown
          /\ server' = server
     /\ (lastOp'.op = "trigger" /\ server'._closed /\ ~server._closed) =>
          shutdown'.state]_vars

\* ------------------------------------------------------------------------
\* Claims about invalidated sessions (checked under InvalidateSpec)
\* ------------------------------------------------------------------------

\* C36: from the return of invalidateSession(token) until the next
\* createSession(token), a getSession(token) reports not found, whether
\* Redis is ready or not and whether redis.get answers or rejects.
C36_InvalidatedStaysGone ==
  \A k \in Tokens :
     (born[k] = NoKey) =>
        \A f \in {"none", "get"} :
           getSession(SM, redisReady, k, f, now).result = NoKey

\* ------------------------------------------------------------------------
\* Claims about logging out (checked under LogoutSpec)
\* ------------------------------------------------------------------------

\* C37: a debounced write-back that was pending when finalizeSession()
\* removed the session does not bring it back: when its timer fires while
\* no store holds the token, Redis holds no entry for the token afterwards
\* and getSession(token) reports not found.
C37_WriteBackAfterFinalize ==
  [][(/\ lastOp'.op = "save"
      /\ ~lastOp'.bound
      /\ born[lastOp'.token] = NoKey
      /\ redisStore[lastOp'.token] = NoKey
      /\ memoryFallback[lastOp'.token] = NoKey) =>
        /\ redisStore'[lastOp'.token] = NoKey
        /\ getSession(SM', redisReady', lastOp'.token, "none", now').result
             = NoKey]_vars

\* ------------------------------------------------------------------------
\* Claims about the stored records (checked under DebounceSpec)
\* ------------------------------------------------------------------------

\* C38: every record that Redis or the fallback map holds carries an
\* expiresAt value, whichever createSession path, write-back or restore
\* stored it.
C38_StoredRecordsExpire ==
  \A k \in Tokens :
     /\ (redisStore[k] # NoKey) => Parse(redisStore[k].json).expiresAt # Absent
     /\ (memoryFallback[k] # NoKey) => memoryFallback[k].expiresAt # Absent

\* ------------------------------------------------------------------------
\* Claims about the session counter (checked under StoreSpec)
\* ------------------------------------------------------------------------

\* C39: metrics.activeSessions equals the number of distinct tokens that
\* have a record in Redis or in the fallback map.
C39_CounterMatchesStore ==
  metrics.activeSessions =
    Cardinality({k \in Tokens :
                   redisStore[k] # NoKey \/ memoryFallback[k] # NoKey})

\* ------------------------------------------------------------------------
\* Claims about control packets (checked under ControlSpec)
\* ------------------------------------------------------------------------

\* C40: a stream packet removes a reconstructor from client.streams only
\* when its status is "end" or "terminate", and a packet that carries any
\* other status leaves client.streams as it was.
C40_OnlyEndOrTerminateRemoves ==
  [][(lastOp'.op = "stream") =>
       LET c == lastOp'.client
           status == lastOp'.packet.status
           final == status \in {Str("end"), Str("terminate")}
       IN  /\ (\E id \in StreamIds : /\ streams[c][id] # NoKey
                                      /\ streams'[c][id] = NoKey) => final
           /\ (status # Undefined /\ ~final) => streams'[c] = streams[c]]_vars

====
